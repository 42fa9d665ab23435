----------------------- MODULE ProofVerificationProofs -----------------------
(***************************************************************************)
(* Theorems about ProofVerification, for every number of sessions,         *)
(* wallets, signatures, administrators' levels and runs of the script.     *)
(***************************************************************************)
EXTENDS ProofVerification, TLAPS

-----------------------------------------------------------------------------
(* The catalogue. *)

\* The seeded levels have distinct slugs, and the common checks with a
\* challenge or no checks at all.
LEMMA SeededLevels ==
    /\ \A k, l \in LEVELS : k.slug = l.slug => k = l
    /\ \A l \in LEVELS : l.checks # {} => Common \subseteq l.checks /\ l.execution.enabled
    /\ \A l \in LEVELS : l.vulnerability \in VULNERABILITIES
  BY DEF LEVELS, FakeMintLevel, AuthoritySpoofingLevel, UncheckedCPILevel, BountyDrainerLevel,
         Level, Execution, NoExecution, VULNERABILITIES

\* A slug names one level, and a level with checks has the common ones and a
\* challenge.
LevelsInv ==
    /\ \A k, l \in levels : k.slug = l.slug => k = l
    /\ \A l \in levels : l.checks # {} => Common \subseteq l.checks /\ l.execution.enabled

LEMMA RowFields ==
    ASSUME NEW level, NEW id, NEW v
    PROVE  /\ Row(level, id, v).id = id /\ Row(level, id, v).slug = level.slug
           /\ Row(level, id, v).vulnerability = v
           /\ Row(level, id, v).checks = level.checks
           /\ Row(level, id, v).execution = level.execution
  BY DEF Row

LEMMA LevelsKept == LevelsInv /\ CatalogueNext => LevelsInv'
  <1> SUFFICES ASSUME LevelsInv, CatalogueNext PROVE LevelsInv'
    OBVIOUS
  <1>1. ASSUME NEW slug \in VULNERABILITIES, CreateVulnerability(slug) PROVE LevelsInv'
    BY <1>1 DEF CreateVulnerability, LevelsInv
  <1>2. ASSUME NEW level \in AdminLevels, CreateLevel(level) PROVE LevelsInv'
    <2>1. PICK v : levels' = levels \cup {Row(level, NewId(level.slug), v)}
      BY <1>2 DEF CreateLevel
    <2>2. \A l \in levels : l.slug # level.slug
      BY <1>2 DEF CreateLevel, SlugsOf
    <2>3. level.checks # {} => Common \subseteq level.checks /\ level.execution.enabled
      BY AdminLevelsAssumption
    <2>4. QED  BY <2>1, <2>2, <2>3, RowFields DEF LevelsInv
  <1>3. ASSUME Seed PROVE LevelsInv'
    <2>1. ASSUME NEW k \in levels'
          PROVE  \/ k \in levels /\ k.slug \notin SlugsOf(LEVELS)
                 \/ \E l \in LEVELS :
                       k = Row(l, LevelId(l.slug), VulnerabilityId(l.vulnerability))
      BY <1>3, <2>1 DEF Seed
    <2>2. \A l \in LEVELS : l.slug \in SlugsOf(LEVELS)
      BY DEF SlugsOf
    <2>3. ASSUME NEW k \in levels', NEW l \in levels', k.slug = l.slug PROVE k = l
      BY <2>1, <2>2, <2>3, SeededLevels, RowFields DEF LevelsInv
    <2>4. ASSUME NEW k \in levels', k.checks # {}
          PROVE  Common \subseteq k.checks /\ k.execution.enabled
      BY <2>1, <2>4, SeededLevels, RowFields DEF LevelsInv
    <2>5. QED  BY <2>3, <2>4 DEF LevelsInv
  <1>4. QED  BY <1>1, <1>2, <1>3 DEF CatalogueNext

\* Whatever becomes of a level, its id stays in the catalogue.
LEMMA IdsKept ==
    ASSUME LevelsInv, CatalogueNext, NEW row \in levels
    PROVE  \E l \in levels' : l.id = row.id
  <1>1. ASSUME NEW slug \in VULNERABILITIES, CreateVulnerability(slug)
        PROVE  \E l \in levels' : l.id = row.id
    BY <1>1 DEF CreateVulnerability
  <1>2. ASSUME NEW level \in AdminLevels, CreateLevel(level)
        PROVE  \E l \in levels' : l.id = row.id
    BY <1>2 DEF CreateLevel
  <1>3. ASSUME Seed PROVE \E l \in levels' : l.id = row.id
    <2>1. CASE row.slug \notin SlugsOf(LEVELS)
      BY <1>3, <2>1 DEF Seed
    <2>2. CASE row.slug \in SlugsOf(LEVELS)
      <3>1. PICK l \in LEVELS : l.slug = row.slug
        BY <2>2 DEF SlugsOf
      <3>2. LevelId(row.slug) = row.id
        BY DEF LevelId, SlugsOf, LevelsInv
      <3>3. Row(l, LevelId(l.slug), VulnerabilityId(l.vulnerability)) \in levels'
        BY <1>3 DEF Seed
      <3>4. QED  BY <3>1, <3>2, <3>3, RowFields
    <2>3. QED  BY <2>1, <2>2
  <1>4. QED  BY <1>1, <1>2, <1>3 DEF CatalogueNext

\* Levels point to vulnerabilities that exist.
VulnerabilitiesInv ==
    \A row \in levels : row.vulnerability # None =>
        \E v \in vulnerabilities : v.id = row.vulnerability

LEMMA VulnerabilitiesKept == VulnerabilitiesInv /\ CatalogueNext => VulnerabilitiesInv'
  <1> SUFFICES ASSUME VulnerabilitiesInv, CatalogueNext PROVE VulnerabilitiesInv'
    OBVIOUS
  <1>1. ASSUME NEW slug \in VULNERABILITIES, CreateVulnerability(slug) PROVE VulnerabilitiesInv'
    BY <1>1 DEF CreateVulnerability, VulnerabilitiesInv
  <1>2. ASSUME NEW level \in AdminLevels, CreateLevel(level) PROVE VulnerabilitiesInv'
    BY <1>2, RowFields DEF CreateLevel, VulnerabilitiesInv
  <1>3. ASSUME Seed PROVE VulnerabilitiesInv'
    <2>1. vulnerabilities \subseteq vulnerabilities'
      BY <1>3 DEF Seed, Seeded
    <2>2. ASSUME NEW slug \in VULNERABILITIES
          PROVE  \E v \in vulnerabilities' : v.id = VulnerabilityId(slug)
      <3>1. \E v \in vulnerabilities' : v.slug = slug
        <4>1. CASE slug \in SlugsOf(vulnerabilities)
          BY <2>1, <4>1 DEF SlugsOf
        <4>2. CASE slug \notin SlugsOf(vulnerabilities)
          <5>1. [slug |-> slug, id |-> StableId(slug)] \in vulnerabilities'
            BY <1>3, <4>2 DEF Seed, Seeded
          <5>2. QED  BY <5>1
        <4>3. QED  BY <4>1, <4>2
      <3>2. QED  BY <3>1 DEF VulnerabilityId
    <2>3. ASSUME NEW k \in levels'
          PROVE  \/ k \in levels
                 \/ \E l \in LEVELS :
                       k = Row(l, LevelId(l.slug), VulnerabilityId(l.vulnerability))
      BY <1>3, <2>3 DEF Seed
    <2>4. QED  BY <2>1, <2>2, <2>3, SeededLevels, RowFields DEF VulnerabilitiesInv
  <1>4. QED  BY <1>1, <1>2, <1>3 DEF CatalogueNext
\* A level has the slug and the execution that the script or an administrator
\* has given it.
LevelsFromInv ==
    \A l \in levels : \E k \in LEVELS \cup AdminLevels :
        l.slug = k.slug /\ l.execution = k.execution

LEMMA LevelsFromKept == LevelsFromInv /\ CatalogueNext => LevelsFromInv'
  <1> SUFFICES ASSUME LevelsFromInv, CatalogueNext PROVE LevelsFromInv'
    OBVIOUS
  <1>1. ASSUME NEW slug \in VULNERABILITIES, CreateVulnerability(slug) PROVE LevelsFromInv'
    BY <1>1 DEF CreateVulnerability, LevelsFromInv
  <1>2. ASSUME NEW level \in AdminLevels, CreateLevel(level) PROVE LevelsFromInv'
    BY <1>2, RowFields DEF CreateLevel, LevelsFromInv
  <1>3. ASSUME Seed PROVE LevelsFromInv'
    BY <1>3, RowFields DEF Seed, LevelsFromInv
  <1>4. QED  BY <1>1, <1>2, <1>3 DEF CatalogueNext

\* The vulnerabilities there are.
SlugsInv == \A v \in vulnerabilities : v.slug \in VULNERABILITIES

LEMMA SlugsKept == SlugsInv /\ CatalogueNext => SlugsInv'
  BY DEF SlugsInv, CatalogueNext, CreateVulnerability, CreateLevel, Seed, Seeded

-----------------------------------------------------------------------------
(* Sessions. *)

Shaped ==
    sessions = [s \in SessionIds |->
        [level |-> sessions[s].level, active |-> sessions[s].active,
         challenge |-> sessions[s].challenge]]

\* A challenge that a builder has made for a session and a wallet.
IsBuilt(s, challenge) ==
    \E row : \E w \in Wallets :
        row.execution.kind \in Supported /\ challenge = Challenge(row, s, w)

LEMMA BuiltFields ==
    ASSUME NEW s, NEW challenge, IsBuilt(s, challenge)
    PROVE  challenge.kind \in Supported /\ Get(challenge.address, "wallet_address") \in Wallets
  <1>1. PICK row : \E w \in Wallets :
            row.execution.kind \in Supported /\ challenge = Challenge(row, s, w)
    BY DEF IsBuilt
  <1>w. PICK w \in Wallets :
            row.execution.kind \in Supported /\ challenge = Challenge(row, s, w)
    BY <1>1
  <1>2. challenge.kind = row.execution.kind
    BY <1>w DEF Challenge
  <1>3. challenge.address =
            [label \in Labels(row.execution.kind) |-> Address(row, s, w, label)]
    BY <1>w DEF Challenge
  <1>4. "wallet_address" \in Labels(row.execution.kind)
    BY DEF Labels
  <1>5. Address(row, s, w, "wallet_address") = w
    <2>1. /\ "wallet_address" \notin SessionLabels(row.execution.kind)
          /\ "wallet_address" \notin LevelLabels(row.execution.kind)
      BY DEF SessionLabels, LevelLabels
    <2>2. QED  BY <2>1 DEF Address
  <1>6. QED  BY <1>w, <1>2, <1>3, <1>4, <1>5 DEF Get

\* A session is of a level in the catalogue, and its challenge is empty or made
\* for it and for a wallet.
SessionsInv ==
    /\ Shaped
    /\ \A s \in SessionIds :
          /\ sessions[s].active \in BOOLEAN
          /\ sessions[s].active \/ sessions[s].level # None =>
                \E row \in levels : row.id = sessions[s].level
          /\ sessions[s].challenge = NoChallenge \/ IsBuilt(s, sessions[s].challenge)

\* A session that is started or ended leaves the others as they are.
LEMMA SessionAfter ==
    ASSUME Shaped, NEW s \in SessionIds
    PROVE  /\ \A new : [sessions EXCEPT ![s] = new]
                  = [q \in SessionIds |-> IF q = s THEN new ELSE sessions[q]]
           /\ [sessions EXCEPT ![s].active = FALSE]
                  = [q \in SessionIds |->
                        IF q = s THEN [level |-> sessions[s].level, active |-> FALSE,
                                       challenge |-> sessions[s].challenge]
                                 ELSE sessions[q]]
  <1>1. DOMAIN sessions = SessionIds
    BY DEF Shaped
  <1>2. sessions[s] = [level |-> sessions[s].level, active |-> sessions[s].active,
                       challenge |-> sessions[s].challenge]
    BY DEF Shaped
  <1>3. [sessions[s] EXCEPT !.active = FALSE]
            = [level |-> sessions[s].level, active |-> FALSE, challenge |-> sessions[s].challenge]
    <2>1. \A v : [sessions[s] EXCEPT !.active = v]
                     = [level |-> sessions[s].level, active |-> v,
                        challenge |-> sessions[s].challenge]
      BY <1>2
    <2>2. QED  BY <2>1
  <1>4. ASSUME NEW new
        PROVE  [sessions EXCEPT ![s] = new] = [q \in SessionIds |-> IF q = s THEN new ELSE sessions[q]]
    BY <1>1
  <1>5. QED  BY <1>3, <1>4

LEMMA SessionsKept ==
    ASSUME LevelsInv, SessionsInv, Next
    PROVE  SessionsInv'
  <1>1. ASSUME CatalogueNext, UNCHANGED <<sessions, chain, submissions>> PROVE SessionsInv'
    <2>1. ASSUME NEW row \in levels PROVE \E l \in levels' : l.id = row.id
      BY <1>1, IdsKept
    <2>2. QED  BY <1>1, <2>1 DEF SessionsInv, Shaped, IsBuilt
  <1>2. ASSUME NEW s \in SessionIds, NEW row \in levels, StartLevel(s, row) PROVE SessionsInv'
    <2>1. sessions' = [q \in SessionIds |->
                          IF q = s THEN [level |-> row.id, active |-> TRUE, challenge |-> NoChallenge]
                                   ELSE sessions[q]]
      <3>1. Shaped
        BY DEF SessionsInv
      <3>2. sessions' = [sessions EXCEPT ![s] =
                            [level |-> row.id, active |-> TRUE, challenge |-> NoChallenge]]
        BY <1>2 DEF StartLevel
      <3>3. QED  BY <3>1, <3>2, SessionAfter
    <2>2. levels' = levels
      BY <1>2 DEF StartLevel
    <2>3. QED  BY <2>1, <2>2 DEF SessionsInv, Shaped
  <1>3. ASSUME NEW s \in SessionIds, NEW w \in Wallets, SetupLevel(s, w) PROVE SessionsInv'
    <2> DEFINE c == Challenge(LevelOf(s), s, w)
    <2>1. sessions' = [q \in SessionIds |->
                          IF q = s THEN [level |-> sessions[s].level, active |-> sessions[s].active,
                                         challenge |-> c]
                                   ELSE sessions[q]]
      <3>1. Shaped
        BY DEF SessionsInv
      <3>2. sessions' = [sessions EXCEPT ![s].challenge = c]
        BY <1>3 DEF SetupLevel
      <3> HIDE DEF c
      <3>3. sessions[s] = [level |-> sessions[s].level, active |-> sessions[s].active,
                           challenge |-> sessions[s].challenge]
        BY <3>1 DEF Shaped
      <3>4. [sessions[s] EXCEPT !.challenge = c]
               = [level |-> sessions[s].level, active |-> sessions[s].active, challenge |-> c]
        BY <3>3
      <3>5. QED  BY <3>1, <3>2, <3>4, SessionAfter
    <2>2. levels' = levels
      BY <1>3 DEF SetupLevel
    <2>3. IsBuilt(s, c)
      BY <1>3 DEF SetupLevel, IsBuilt
    <2> HIDE DEF c
    <2>4. QED  BY <2>1, <2>2, <2>3 DEF SessionsInv, Shaped
  <1>4. ASSUME NEW s \in SessionIds, NEW p, SubmitLevel(s, p) PROVE SessionsInv'
    <2>1. sessions' = [q \in SessionIds |->
                          IF q = s THEN [level |-> sessions[s].level, active |-> FALSE,
                                         challenge |-> sessions[s].challenge]
                                   ELSE sessions[q]]
      BY <1>4, SessionAfter DEF SubmitLevel, SessionsInv
    <2>2. levels' = levels
      BY <1>4 DEF SubmitLevel
    <2>3. QED  BY <2>1, <2>2 DEF SessionsInv, Shaped
  <1>5. ASSUME NEW g, NEW w, NEW row, NEW s, NEW owner, NEW left, NEW ok, NEW moved,
               Land(g, w, row, s, owner, left, ok, moved)
        PROVE  SessionsInv'
    BY <1>5 DEF Land, SessionsInv, Shaped
  <1>6. QED  BY <1>1, <1>2, <1>3, <1>4, <1>5 DEF Next

-----------------------------------------------------------------------------
(* The verdict. *)

\* A level's own checks are made, the binding filled in with the session and
\* the wallet of its setup.
LEMMA ChecksMade ==
    ASSUME NEW checks, NEW s, Common \subseteq checks
    PROVE  /\ [DefaultCheck("session_binding") EXCEPT !.session = s, !.wallet = SetupWallet(s)]
                  \in RuntimeChecks(checks, s)
           /\ DefaultCheck("transaction_signature") \in RuntimeChecks(checks, s)
           /\ DefaultCheck("solana_transaction") \in RuntimeChecks(checks, s)
  <1>1. \A type \in {"session_binding", "transaction_signature", "solana_transaction"} :
            DefaultCheck(type) \in checks
    BY DEF Common
  <1>2. \A type : DefaultCheck(type).type = type
    BY DEF DefaultCheck
  <1>3. QED  BY <1>1, <1>2 DEF RuntimeChecks

\* What passes the common checks names the wallet of the setup, and comes with a
\* transaction that exists, succeeded, is signed by it and has the accounts.
LEMMA CommonChecks ==
    ASSUME NEW checks, NEW s, NEW p, Common \subseteq checks,
           SetupWallet(s) # None, Verify(RuntimeChecks(checks, s), p)
    PROVE  /\ p.wallet = SetupWallet(s)
           /\ p.sig # None
           /\ p.onchain.exists /\ p.onchain.succeeded
           /\ p.wallet \in p.onchain.signers
           /\ p.challenge.required \subseteq p.onchain.keys
  <1> DEFINE binding ==
          [DefaultCheck("session_binding") EXCEPT !.session = s, !.wallet = SetupWallet(s)]
  <1>1. /\ Passes(binding, p)
        /\ Passes(DefaultCheck("transaction_signature"), p)
        /\ Passes(DefaultCheck("solana_transaction"), p)
    BY ChecksMade DEF Verify
  <1>2. binding.type = "session_binding" /\ binding.wallet = SetupWallet(s)
    BY DEF DefaultCheck
  <1> HIDE DEF binding
  <1>3. p.wallet = SetupWallet(s)
    BY <1>1, <1>2 DEF Passes, SessionBinding
  <1>4. p.sig # None
    <2>1. DefaultCheck("transaction_signature").type = "transaction_signature"
      BY DEF DefaultCheck
    <2>2. QED  BY <1>1, <2>1 DEF Passes, TransactionSignature
  <1>5. /\ p.onchain.exists /\ p.onchain.succeeded
        /\ p.wallet \in p.onchain.signers
        /\ p.challenge.required \subseteq p.onchain.keys
    <2> DEFINE check == DefaultCheck("solana_transaction")
    <2>1. /\ check.type = "solana_transaction" /\ check.require_success
          /\ check.require_wallet_signer /\ check.require_challenge_accounts
      BY DEF DefaultCheck
    <2> HIDE DEF check
    <2>2. SolanaTransaction(check, p)
      BY <1>1, <2>1 DEF Passes, check
    <2>3. QED  BY <2>1, <2>2 DEF SolanaTransaction, Exists
  <1>6. QED  BY <1>3, <1>4, <1>5

\* What the node answers takes the place of what the client says.
LEMMA PayloadFields ==
    ASSUME NEW g, NEW w, NEW named, NEW s, NEW claims, NEW answer, NEW challenge
    PROVE  LET proof == Proof(g, w, named, s, claims)
               payload == [AttachDerivedTokenBalances(AttachOnchainProof(proof, answer), challenge)
                              EXCEPT !.challenge = challenge]
           IN  /\ proof.sig = g /\ proof.wallet = w
               /\ payload.sig = g /\ payload.wallet = w
               /\ payload.onchain = answer /\ payload.challenge = challenge
               /\ [proof EXCEPT !.challenge = challenge].sig = g
  BY DEF Proof, AttachOnchainProof, AttachDerivedTokenBalances

-----------------------------------------------------------------------------
(* Verified submissions. *)

\* A verified session changes no more, and was earned by the transaction that
\* its submission carries.
Settled(b) ==
    /\ ~sessions[b.session].active
    /\ sessions[b.session].challenge # NoChallenge
    /\ b.payload.wallet = SetupWallet(b.session)
    /\ b.payload.onchain \in chain
    /\ b.payload.onchain.sig = b.payload.sig
    /\ Earns(b.payload.onchain, b.session)

SubmissionsInv ==
    \A b \in submissions :
        /\ b.session \in SessionIds /\ b.verified \in BOOLEAN
        /\ b.verified => Settled(b)

LEMMA SettledStays ==
    ASSUME NEW b, Settled(b), sessions'[b.session] = sessions[b.session], chain \subseteq chain'
    PROVE  Settled(b)'
  BY DEF Settled, Earns, SetupWallet

\* A step that adds no submission and leaves settled sessions alone.
LEMMA SubmissionsStay ==
    ASSUME SubmissionsInv, submissions' = submissions, chain \subseteq chain',
           \A q \in SessionIds :
               ~sessions[q].active /\ sessions[q].challenge # NoChallenge =>
                   sessions'[q] = sessions[q]
    PROVE  SubmissionsInv'
  <1> SUFFICES ASSUME NEW b \in submissions, b.verified PROVE Settled(b)'
    BY DEF SubmissionsInv
  <1>1. Settled(b) /\ b.session \in SessionIds
    BY DEF SubmissionsInv
  <1>2. sessions'[b.session] = sessions[b.session]
    BY <1>1 DEF Settled
  <1>3. QED  BY <1>1, <1>2, SettledStays

\* A submission is verified if the session's wallet has landed what it says.
LEMMA VerdictIsEarned ==
    ASSUME LevelsInv, SessionsInv, NEW s \in SessionIds, sessions[s].active,
           LevelOf(s).execution.enabled => sessions[s].challenge # NoChallenge,
           NEW p, p.challenge = sessions[s].challenge,
           Verify(RuntimeChecks(LevelOf(s).checks, s), p)
    PROVE  /\ sessions[s].challenge # NoChallenge
           /\ p.wallet = SetupWallet(s)
           /\ p.sig # None
           /\ p.onchain.exists
           /\ Earns(p.onchain, s)
  <1>1. LevelOf(s) \in levels
    BY DEF SessionsInv, LevelOf
  <1>2. LevelOf(s).checks # {}
    BY DEF Verify, RuntimeChecks
  <1>3. Common \subseteq LevelOf(s).checks /\ LevelOf(s).execution.enabled
    BY <1>1, <1>2 DEF LevelsInv
  <1>4. IsBuilt(s, sessions[s].challenge) /\ sessions[s].challenge # NoChallenge
    BY <1>3 DEF SessionsInv
  <1>5. sessions[s].challenge.kind \in Supported /\ SetupWallet(s) \in Wallets
    BY <1>4, BuiltFields DEF SetupWallet
  <1>6. SetupWallet(s) # None
    BY <1>5, NoneAssumption
  <1>7. QED  BY <1>3, <1>4, <1>5, <1>6, CommonChecks DEF Earns

LEMMA SubmitKeeps ==
    ASSUME LevelsInv, SessionsInv, SubmissionsInv, NEW s \in SessionIds,
           NEW g, NEW w, NEW named, NEW claims, SubmitLevel(s, Proof(g, w, named, s, claims))
    PROVE  SubmissionsInv'
  <1> DEFINE proof == Proof(g, w, named, s, claims)
             challenge == sessions[s].challenge
             attached(answer) == IF proof.sig = None THEN proof
                                 ELSE AttachDerivedTokenBalances(
                                          AttachOnchainProof(proof, answer), challenge)
             payload(answer) == [attached(answer) EXCEPT !.challenge = challenge]
             verdict(answer) == Verify(RuntimeChecks(LevelOf(s).checks, s), payload(answer))
  <1>1. PICK answer \in {NotFound(proof.sig)} \cup {t \in chain : t.sig = proof.sig} :
            submissions' = submissions \cup
                {[session |-> s, payload |-> payload(answer), verified |-> verdict(answer)]}
    BY DEF SubmitLevel
  <1>2. PICK p : p = payload(answer)
    OBVIOUS
  <1>3. PICK b : b = [session |-> s, payload |-> p, verified |-> verdict(answer)]
    OBVIOUS
  <1>4. /\ b.session = s /\ b.payload = p /\ b.verified = verdict(answer)
        /\ b.verified \in BOOLEAN
    BY <1>3 DEF Verify
  <1>5. /\ sessions[s].active /\ chain' = chain
        /\ LevelOf(s).execution.enabled => challenge # NoChallenge
        /\ sessions' = [q \in SessionIds |->
                           IF q = s THEN [level |-> sessions[s].level, active |-> FALSE,
                                          challenge |-> sessions[s].challenge]
                                    ELSE sessions[q]]
    BY SessionAfter DEF SubmitLevel, SessionsInv
  <1>6. ASSUME NEW c \in submissions, c.verified PROVE Settled(c)'
    <2>1. Settled(c) /\ c.session \in SessionIds
      BY <1>6 DEF SubmissionsInv
    <2>2. sessions'[c.session] = sessions[c.session]
      BY <1>5, <2>1 DEF Settled
    <2>3. QED  BY <1>5, <2>1, <2>2, SettledStays
  <1>7. ASSUME verdict(answer) PROVE Settled(b)'
    <2>1. proof.sig = g /\ p.sig = g
      BY <1>2, PayloadFields
    <2>2. p.challenge = challenge
      BY <1>2, PayloadFields DEF Proof
    <2>3. /\ challenge # NoChallenge /\ p.wallet = SetupWallet(s)
          /\ p.sig # None /\ p.onchain.exists /\ Earns(p.onchain, s)
      BY <1>2, <1>5, <1>7, <2>2, VerdictIsEarned
    <2>4. p.onchain = answer
      BY <1>2, <2>1, <2>3, PayloadFields
    <2>5. answer \in chain /\ answer.sig = g
      BY <1>1, <2>1, <2>3, <2>4 DEF NotFound
    <2>6. sessions'[s].challenge = challenge /\ ~sessions'[s].active
      BY <1>5
    <2>7. SetupWallet(s)' = SetupWallet(s)
      BY <2>6 DEF SetupWallet
    <2>8. Earns(p.onchain, s)'
      BY <2>3, <2>6, <2>7 DEF Earns
    <2>9. QED
      BY <1>4, <1>5, <2>1, <2>3, <2>4, <2>5, <2>6, <2>7, <2>8 DEF Settled
  <1>8. submissions' = submissions \cup {b}
    BY <1>1, <1>2, <1>3
  <1> HIDE DEF verdict
  <1>9. QED  BY <1>4, <1>6, <1>7, <1>8 DEF SubmissionsInv

LEMMA SubmissionsKept ==
    ASSUME LevelsInv, SessionsInv, SubmissionsInv, Next
    PROVE  SubmissionsInv'
  <1>1. ASSUME CatalogueNext, UNCHANGED <<sessions, chain, submissions>> PROVE SubmissionsInv'
    BY <1>1, SubmissionsStay
  <1>2. ASSUME NEW s \in SessionIds, NEW row \in levels, StartLevel(s, row) PROVE SubmissionsInv'
    <2>1. sessions[s].challenge = NoChallenge
      BY <1>2 DEF StartLevel, NoSession
    <2>2. \A q \in SessionIds : q # s => sessions'[q] = sessions[q]
      BY <1>2 DEF StartLevel, SessionsInv, Shaped
    <2>3. QED  BY <1>2, <2>1, <2>2, SubmissionsStay DEF StartLevel
  <1>3. ASSUME NEW s \in SessionIds, NEW w \in Wallets, SetupLevel(s, w) PROVE SubmissionsInv'
    <2>1. \A q \in SessionIds : q # s => sessions'[q] = sessions[q]
      BY <1>3 DEF SetupLevel, SessionsInv, Shaped
    <2>2. QED  BY <1>3, <2>1, SubmissionsStay DEF SetupLevel
  <1>4. ASSUME NEW s \in SessionIds, NEW g, NEW w, NEW named, NEW claims,
               SubmitLevel(s, Proof(g, w, named, s, claims))
        PROVE  SubmissionsInv'
    BY <1>4, SubmitKeeps
  <1>5. ASSUME NEW g, NEW w, NEW row, NEW s, NEW owner, NEW left, NEW ok, NEW moved,
               Land(g, w, row, s, owner, left, ok, moved)
        PROVE  SubmissionsInv'
    BY <1>5, SubmissionsStay DEF Land
  <1>6. QED  BY <1>1, <1>2, <1>3, <1>4, <1>5 DEF Next

-----------------------------------------------------------------------------
(* The chain. *)

ChainInv == \A t \in chain : t.sig \in Signatures /\ t.exists /\ t.signers \subseteq Wallets

LEMMA ChainKept == ChainInv /\ Next => ChainInv'
  <1> SUFFICES ASSUME ChainInv, Next PROVE ChainInv'
    OBVIOUS
  <1>1. ASSUME NEW g \in Signatures, NEW w \in Wallets, NEW row, NEW s, NEW owner, NEW left,
               NEW ok, NEW moved, Land(g, w, row, s, owner, left, ok, moved)
        PROVE  ChainInv'
    BY <1>1 DEF Land, ChainInv
  <1>2. ASSUME chain' = chain PROVE ChainInv'
    BY <1>2 DEF ChainInv
  <1>3. /\ \A s, row : StartLevel(s, row) => chain' = chain
        /\ \A s, w : SetupLevel(s, w) => chain' = chain
        /\ \A s, p : SubmitLevel(s, p) => chain' = chain
    BY DEF StartLevel, SetupLevel, SubmitLevel
  <1>4. QED  BY <1>1, <1>2, <1>3 DEF Next

-----------------------------------------------------------------------------
(* Theorems. *)

Inv ==
    /\ LevelsInv /\ LevelsFromInv /\ SlugsInv /\ VulnerabilitiesInv
    /\ SessionsInv /\ ChainInv /\ SubmissionsInv

LEMMA InvInitially == Init => Inv
  <1> SUFFICES ASSUME Init PROVE Inv
    OBVIOUS
  <1>1. LevelsInv /\ LevelsFromInv /\ SlugsInv /\ VulnerabilitiesInv
    BY DEF Init, CatalogueInit, LevelsInv, LevelsFromInv, SlugsInv, VulnerabilitiesInv
  <1>2. SessionsInv
    BY DEF Init, SessionsInv, Shaped, NoSession
  <1>3. ChainInv /\ SubmissionsInv
    BY DEF Init, ChainInv, SubmissionsInv
  <1>4. QED  BY <1>1, <1>2, <1>3 DEF Inv

LEMMA InvStep == Inv /\ [Next]_vars => Inv'
  <1> SUFFICES ASSUME Inv, [Next]_vars PROVE Inv'
    OBVIOUS
  <1> USE DEF Inv
  <1>1. CASE UNCHANGED vars
    <2>1. LevelsInv' /\ LevelsFromInv' /\ SlugsInv' /\ VulnerabilitiesInv' /\ ChainInv'
      BY <1>1 DEF vars, LevelsInv, LevelsFromInv, SlugsInv, VulnerabilitiesInv, ChainInv
    <2>2. SessionsInv' /\ SubmissionsInv'
      BY <1>1 DEF vars, SessionsInv, Shaped, SubmissionsInv, Settled, Earns, SetupWallet
    <2>3. QED  BY <2>1, <2>2
  <1>2. CASE Next
    <2>1. CatalogueNext \/ UNCHANGED <<vulnerabilities, levels>>
      <3>1. /\ \A s, row : StartLevel(s, row) => UNCHANGED <<vulnerabilities, levels>>
            /\ \A s, w : SetupLevel(s, w) => UNCHANGED <<vulnerabilities, levels>>
            /\ \A s, p : SubmitLevel(s, p) => UNCHANGED <<vulnerabilities, levels>>
        BY DEF StartLevel, SetupLevel, SubmitLevel
      <3>2. \A g, w, row, s, owner, left, ok, moved :
                Land(g, w, row, s, owner, left, ok, moved) => UNCHANGED <<vulnerabilities, levels>>
        BY DEF Land
      <3>3. QED  BY <1>2, <3>1, <3>2 DEF Next
    <2>2. LevelsInv' /\ LevelsFromInv' /\ SlugsInv' /\ VulnerabilitiesInv'
      <3>1. CASE CatalogueNext
        BY <3>1, LevelsKept, LevelsFromKept, SlugsKept, VulnerabilitiesKept
      <3>2. CASE UNCHANGED <<vulnerabilities, levels>>
        BY <3>2 DEF LevelsInv, LevelsFromInv, SlugsInv, VulnerabilitiesInv
      <3>3. QED  BY <2>1, <3>1, <3>2
    <2>3. SessionsInv'
      BY <1>2, SessionsKept
    <2>4. SubmissionsInv' /\ ChainInv'
      BY <1>2, SubmissionsKept, ChainKept
    <2>5. QED  BY <2>2, <2>3, <2>4
  <1>3. QED  BY <1>1, <1>2

\* Every variable keeps its type.
THEOREM TypeCorrect == Spec => []TypeOK
  <1>1. Inv => TypeOK
    <2> SUFFICES ASSUME Inv PROVE TypeOK
      OBVIOUS
    <2>1. \A l \in levels : l.slug \in SlugsOf(LEVELS) \cup SlugsOf(AdminLevels)
      BY DEF Inv, LevelsFromInv, SlugsOf
    <2>2. ASSUME NEW s \in SessionIds
          PROVE  /\ sessions[s].level \in {None} \cup {l.id : l \in levels}
                 /\ sessions[s].active \in BOOLEAN
                 /\ sessions[s].challenge.kind \in Supported \cup {None}
      <3>1. NoChallenge.kind = None
        BY DEF NoChallenge
      <3>2. QED  BY <3>1, BuiltFields DEF Inv, SessionsInv
    <2>3. QED  BY <2>1, <2>2 DEF Inv, SlugsInv, ChainInv, SubmissionsInv, TypeOK
  <1>2. QED  BY InvInitially, InvStep, <1>1, PTL DEF Spec

\* What is verified was earned, for all clients, nodes, chains and catalogues.
THEOREM VerifiedIsEarnedHolds == Spec => []VerifiedIsEarned
  <1>1. Inv => VerifiedIsEarned
    BY DEF Inv, SubmissionsInv, Settled, VerifiedIsEarned
  <1>2. QED  BY InvInitially, InvStep, <1>1, PTL DEF Spec

\* Sessions keep their level and levels their vulnerability.
THEOREM CatalogueIsLinkedHolds == Spec => []CatalogueIsLinked
  <1>1. Inv => CatalogueIsLinked
    BY DEF Inv, VulnerabilitiesInv, SessionsInv, CatalogueIsLinked
  <1>2. QED  BY InvInitially, InvStep, <1>1, PTL DEF Spec

\* Every challenge requires an account hashed from its session and wallet.
LEMMA OwnAccount ==
    ASSUME NEW s, NEW challenge, IsBuilt(s, challenge)
    PROVE  \E w \in Wallets, kind \in Supported : \E label \in BoundLabels(kind) :
              Pubkey(<<s, w, label>>) \in challenge.required
  <1>1. PICK row : \E w \in Wallets :
            row.execution.kind \in Supported /\ challenge = Challenge(row, s, w)
    BY DEF IsBuilt
  <1>2. PICK w \in Wallets :
            row.execution.kind \in Supported /\ challenge = Challenge(row, s, w)
    BY <1>1
  <1> DEFINE kind == row.execution.kind
             label == IF kind = FAKE_MINT THEN "fake_mint" ELSE "authority_record_pda"
  <1>3. kind = FAKE_MINT \/ kind = HIJACK \/ kind = CPI
    BY <1>2 DEF Supported
  <1>4. label \in BoundLabels(kind)
    BY <1>3 DEF BoundLabels, FAKE_MINT, HIJACK, CPI
  <1>5. label \in RequiredLabels(kind)
    BY <1>4 DEF RequiredLabels, Labels
  <1>6. Address(row, s, w, label) = Pubkey(<<s, w, label>>)
    BY <1>3 DEF Address, SessionLabels, LevelLabels, FAKE_MINT, HIJACK, CPI
  <1>7. Pubkey(<<s, w, label>>) \in challenge.required
    BY <1>2, <1>5, <1>6 DEF Challenge
  <1>8. QED  BY <1>2, <1>4, <1>7

\* What else an address of a challenge can be.
LEMMA AddressForms ==
    ASSUME NEW l, NEW s, NEW w, NEW label, l.execution.kind \in Supported
    PROVE  \/ Address(l, s, w, label) = w
           \/ \E name \in DOMAIN l.execution.given :
                 Address(l, s, w, label) = l.execution.given[name]
           \/ Address(l, s, w, label) = Pubkey(<<s, label>>)
           \/ Address(l, s, w, label) = Pubkey(<<"solbreach", l.slug, label>>)
           \/ Address(l, s, w, label) = Pubkey(<<s, w, label>>)
  BY DEF Address

\* A transaction that verifies a session was made for it.
THEOREM ProofIsForItsSessionHolds == Spec => []ProofIsForItsSession
  <1>1. Inv => ProofIsForItsSession
    <2> SUFFICES ASSUME Inv, NEW b \in submissions, b.verified
                 PROVE  \E key \in b.payload.onchain.keys :
                           /\ key \in sessions[b.session].challenge.required
                           /\ \A s \in SessionIds \ {b.session}, w \in Wallets, l \in levels :
                                 l.execution.kind \in Supported =>
                                     key \notin Challenge(l, s, w).required
      BY DEF ProofIsForItsSession
    <2>1. b.session \in SessionIds /\ Settled(b)
      BY DEF Inv, SubmissionsInv
    <2>2. IsBuilt(b.session, sessions[b.session].challenge)
      BY <2>1 DEF Inv, SessionsInv, Settled
    <2>3. PICK v \in Wallets, kind \in Supported : \E name \in BoundLabels(kind) :
              Pubkey(<<b.session, v, name>>) \in sessions[b.session].challenge.required
      BY <2>2, OwnAccount
    <2>4. PICK name \in BoundLabels(kind) :
              Pubkey(<<b.session, v, name>>) \in sessions[b.session].challenge.required
      BY <2>3
    <2> DEFINE key == Pubkey(<<b.session, v, name>>)
    <2>5. key \in b.payload.onchain.keys
      BY <2>1, <2>4 DEF Settled, Earns
    <2>6. ASSUME NEW s \in SessionIds \ {b.session}, NEW w \in Wallets, NEW l \in levels,
                 l.execution.kind \in Supported, NEW label
          PROVE  key # Address(l, s, w, label)
      <3>1. key \notin Wallets
        BY <2>1, AddressesAssumption
      <3>2. ASSUME NEW given \in DOMAIN l.execution.given
            PROVE  key # l.execution.given[given]
        <4>1. PICK k \in LEVELS \cup AdminLevels : l.execution = k.execution
          BY DEF Inv, LevelsFromInv
        <4>2. l.execution.given[given]
                 \in UNION {{k1.execution.given[i] : i \in DOMAIN k1.execution.given} :
                               k1 \in LEVELS \cup AdminLevels}
          BY <4>1
        <4>3. QED  BY <2>1, <4>2, AddressesAssumption
      <3>3. "solbreach" # b.session
        BY <2>1, AddressesAssumption
      <3>4. /\ key # Pubkey(<<s, label>>)
            /\ key # Pubkey(<<"solbreach", l.slug, label>>)
            /\ key # Pubkey(<<s, w, label>>)
        BY <3>3 DEF Pubkey
      <3> HIDE DEF key
      <3>5. QED  BY <2>6, <3>1, <3>2, <3>4, AddressForms
    <2> HIDE DEF key
    <2>7. ASSUME NEW s \in SessionIds \ {b.session}, NEW w \in Wallets, NEW l \in levels,
                 l.execution.kind \in Supported
          PROVE  key \notin Challenge(l, s, w).required
      BY <2>6, <2>7 DEF Challenge
    <2>8. key \in sessions[b.session].challenge.required
      BY <2>4 DEF key
    <2>9. QED  BY <2>5, <2>7, <2>8
  <1>2. QED  BY InvInitially, InvStep, <1>1, PTL DEF Spec

-----------------------------------------------------------------------------
(* A good proof passes. *)

\* Null is not the record of a transaction.
NoneIsNoRecord ==
    \A g, ok, ws, ks, ds :
        [sig |-> g, exists |-> TRUE, succeeded |-> ok, signers |-> ws, keys |-> ks,
         deltas |-> ds] # None

ChainWhole == \A t \in chain : t # None /\ t.sig \notin Short

LEMMA ChainStaysWhole == ASSUME NoneIsNoRecord PROVE ChainWhole /\ [Next]_vars => ChainWhole'
  <1> SUFFICES ASSUME ChainWhole, [Next]_vars PROVE ChainWhole'
    OBVIOUS
  <1>1. ASSUME NEW g, NEW w, NEW row, NEW s, NEW owner, NEW left, NEW ok, NEW moved,
               Land(g, w, row, s, owner, left, ok, moved)
        PROVE  ChainWhole'
    BY <1>1 DEF Land, ChainWhole, NoneIsNoRecord
  <1>2. ASSUME chain' = chain PROVE ChainWhole'
    BY <1>2 DEF ChainWhole
  <1>3. /\ \A s, row : StartLevel(s, row) => chain' = chain
        /\ \A s, w : SetupLevel(s, w) => chain' = chain
        /\ \A s, p : SubmitLevel(s, p) => chain' = chain
    BY DEF StartLevel, SetupLevel, SubmitLevel
  <1>4. QED  BY <1>1, <1>2, <1>3 DEF Next, vars

\* The labels that the checks of the second and the third level look for are
\* among those that their challenge requires.
LEMMA LabelsRequired ==
    /\ HijackLabels \subseteq Labels(HIJACK) /\ HijackLabels \subseteq RequiredLabels(HIJACK)
    /\ CPILabels \subseteq Labels(CPI) /\ CPILabels \subseteq RequiredLabels(CPI)
  <1>1. HIJACK # CPI /\ FAKE_MINT # HIJACK /\ FAKE_MINT # CPI
    BY DEF HIJACK, CPI, FAKE_MINT
  <1>2. BoundLabels(HIJACK) = {"commander_registry_pda", "trusted_commander_pda",
                               "hijacked_commander_pda", "authority_record_pda"}
    BY <1>1 DEF BoundLabels
  <1>3. BoundLabels(CPI) = {"guild_authority_pda", "level3_state_pda", "bounty_vault_pda",
                            "attacker_cpi_program", "player_reward_account",
                            "authority_record_pda"}
    BY <1>1 DEF BoundLabels
  <1>4. LevelLabels(CPI) = {"trusted_cpi_program"}
    BY <1>1 DEF LevelLabels
  <1>5. HijackLabels \subseteq Labels(HIJACK) /\ RequiredLabels(HIJACK) = Labels(HIJACK)
    BY <1>1, <1>2 DEF HijackLabels, Labels, RequiredLabels
  <1>6. CPILabels \subseteq Labels(CPI) /\ RequiredLabels(CPI) = Labels(CPI) \ {"program_id"}
    BY <1>1, <1>3, <1>4 DEF CPILabels, Labels, RequiredLabels
  <1>7. "program_id" \notin CPILabels
    BY DEF CPILabels
  <1>8. QED  BY <1>5, <1>6, <1>7

LEMMA LabelsFound ==
    ASSUME NEW row, NEW s, NEW w, NEW c, NEW p,
           p.challenge = Challenge(row, s, w), p.challenge.required \subseteq p.onchain.keys,
           c.labels \subseteq Labels(row.execution.kind),
           c.labels \subseteq RequiredLabels(row.execution.kind)
    PROVE  HasLabels(c, p)
  <1>1. p.challenge.address =
            [label \in Labels(row.execution.kind) |-> Address(row, s, w, label)]
    BY DEF Challenge
  <1>2. p.challenge.required =
            {Address(row, s, w, label) : label \in RequiredLabels(row.execution.kind)}
    BY DEF Challenge
  <1>3. QED  BY <1>1, <1>2 DEF HasLabels

\* The checks of a seeded level.
LEMMA SeededChecks ==
    ASSUME NEW l \in LEVELS, NEW c \in l.checks
    PROVE  \/ c \in Common
           \/ c = DefaultCheck("pda_commander_hijack") /\ l.execution.kind = HIJACK
           \/ c = DefaultCheck("delegated_cpi_exploit") /\ l.execution.kind = CPI
  BY DEF LEVELS, FakeMintLevel, AuthoritySpoofingLevel, UncheckedCPILevel, BountyDrainerLevel,
         Level, Execution

\* The payload of a proof that deserves to pass.
Deserves(p, s, row) ==
    /\ p.session = s /\ p.wallet = SetupWallet(s)
    /\ p.sig # None /\ p.sig \notin Short /\ ~p.reused /\ p.succeeded
    /\ p.onchain # None /\ p.onchain.exists /\ p.onchain.succeeded
    /\ p.wallet \in p.onchain.signers
    /\ p.challenge = Challenge(row, s, p.wallet)
    /\ p.challenge.required \subseteq p.onchain.keys

LEMMA DeservesCommon ==
    ASSUME NEW p, NEW s, NEW row, Deserves(p, s, row), NEW c \in RuntimeChecks(Common, s)
    PROVE  Passes(c, p)
  <1>1. PICK d \in Common :
            c = IF d.type = "session_binding"
                THEN [d EXCEPT !.session = s, !.wallet = SetupWallet(s)] ELSE d
    BY DEF RuntimeChecks
  <1>2. \A type : DefaultCheck(type).type = type
    BY DEF DefaultCheck
  <1>3. CASE d = DefaultCheck("session_binding")
    <2>1. c.type = "session_binding" /\ c.session = s /\ c.wallet = SetupWallet(s)
      BY <1>1, <1>2, <1>3 DEF DefaultCheck
    <2>2. QED  BY <2>1 DEF Passes, SessionBinding, Deserves
  <1>4. CASE d = DefaultCheck("replay_protection")
    <2>1. c.type = "replay_protection"
      BY <1>1, <1>2, <1>4
    <2>2. QED  BY <2>1 DEF Passes, ReplayProtection, Deserves
  <1>5. CASE d = DefaultCheck("transaction_signature")
    <2>1. c.type = "transaction_signature" /\ c.signature = None
      BY <1>1, <1>2, <1>5 DEF DefaultCheck
    <2>2. QED  BY <2>1 DEF Passes, TransactionSignature, Deserves
  <1>6. CASE d = DefaultCheck("solana_transaction")
    <2>1. c.type = "solana_transaction" /\ c.required_accounts = {} /\ c.modified = {}
      BY <1>1, <1>2, <1>6 DEF DefaultCheck
    <2>2. SolanaTransaction(c, p)
      BY <2>1 DEF SolanaTransaction, Exists, Deserves
    <2>3. QED  BY <2>1, <2>2 DEF Passes
  <1>7. QED  BY <1>3, <1>4, <1>5, <1>6 DEF Common

LEMMA DeservesToPass ==
    ASSUME NEW p, NEW s, NEW row, Deserves(p, s, row),
           NEW l \in LEVELS, l.checks # {}, row.execution = l.execution
    PROVE  Verify(RuntimeChecks(l.checks, s), p)
  <1>1. RuntimeChecks(l.checks, s) # {}
    BY DEF RuntimeChecks
  <1>2. ASSUME NEW c \in RuntimeChecks(l.checks, s) PROVE Passes(c, p)
    <2>1. PICK d \in l.checks :
              c = IF d.type = "session_binding"
                  THEN [d EXCEPT !.session = s, !.wallet = SetupWallet(s)] ELSE d
      BY DEF RuntimeChecks
    <2>2. \A type : DefaultCheck(type).type = type
      BY DEF DefaultCheck
    <2>3. CASE d \in Common
      <3>1. c \in RuntimeChecks(Common, s)
        BY <2>1, <2>3 DEF RuntimeChecks
      <3>2. QED  BY <3>1, DeservesCommon
    <2>4. CASE d = DefaultCheck("pda_commander_hijack") /\ l.execution.kind = HIJACK
      <3>1. c.type = "pda_commander_hijack" /\ c.labels = HijackLabels
        BY <2>1, <2>2, <2>4 DEF DefaultCheck
      <3>2. p.challenge.kind = HIJACK /\ p.challenge.commander = p.wallet
        BY <2>4 DEF Deserves, Challenge
      <3>3. HasLabels(c, p)
        BY <2>4, <3>1, LabelsFound, LabelsRequired DEF Deserves
      <3>4. PDACommanderHijack(c, p)
        BY <3>2, <3>3 DEF PDACommanderHijack, Exists, Deserves
      <3>5. QED  BY <3>1, <3>4 DEF Passes
    <2>5. CASE d = DefaultCheck("delegated_cpi_exploit") /\ l.execution.kind = CPI
      <3>1. c.type = "delegated_cpi_exploit" /\ c.labels = CPILabels /\ c.sequence = SEQUENCE
        BY <2>1, <2>2, <2>5 DEF DefaultCheck
      <3>2. p.challenge.kind = CPI /\ p.challenge.sequence = SEQUENCE
        BY <2>5 DEF Deserves, Challenge
      <3>3. HasLabels(c, p)
        BY <2>5, <3>1, LabelsFound, LabelsRequired DEF Deserves
      <3>4. DelegatedCPIExploit(c, p)
        BY <3>1, <3>2, <3>3 DEF DelegatedCPIExploit, Exists, Deserves
      <3>5. QED  BY <3>1, <3>4 DEF Passes
    <2>6. QED  BY <2>1, <2>3, <2>4, <2>5, SeededChecks
  <1>3. QED  BY <1>1, <1>2 DEF Verify

\* A submission of a good proof, on a level as it is seeded, is verified.
LEMMA GoodProofPasses ==
    ASSUME Inv, ChainWhole, NEW s \in SessionIds, NEW g, NEW w, NEW named, NEW claims,
           SubmitLevel(s, Proof(g, w, named, s, claims)),
           NEW b \in submissions' \ submissions,
           IsSeeded(LevelOf(b.session)), GoodProof(b, LevelOf(b.session))
    PROVE  b.verified
  <1> DEFINE proof == Proof(g, w, named, s, claims)
             challenge == sessions[s].challenge
             attached(answer) == IF proof.sig = None THEN proof
                                 ELSE AttachDerivedTokenBalances(
                                          AttachOnchainProof(proof, answer), challenge)
             payload(answer) == [attached(answer) EXCEPT !.challenge = challenge]
             checks == RuntimeChecks(LevelOf(s).checks, s)
  <1>1. PICK answer \in {NotFound(proof.sig)} \cup {t \in chain : t.sig = proof.sig} :
            b = [session |-> s, payload |-> payload(answer),
                 verified |-> Verify(checks, payload(answer))]
    BY DEF SubmitLevel
  <1>2. PICK p : p = payload(answer)
    OBVIOUS
  <1>3. b.session = s /\ b.payload = p /\ (b.verified <=> Verify(checks, p))
    BY <1>1, <1>2 DEF Verify
  <1>4. /\ p.session = s /\ p.wallet = SetupWallet(s) /\ p.onchain \in chain
        /\ Earns(p.onchain, s) /\ challenge = Challenge(LevelOf(s), s, SetupWallet(s))
    BY <1>3 DEF GoodProof
  <1>5. p.onchain # None /\ p.onchain.exists /\ p.onchain.sig \in Signatures
        /\ p.onchain.sig \notin Short
    BY <1>4 DEF ChainWhole, Inv, ChainInv
  <1>6. ~p.reused /\ p.challenge = challenge
    BY <1>2 DEF Proof, AttachOnchainProof, AttachDerivedTokenBalances
  <1>7. g # None
    <2> SUFFICES ASSUME g = None PROVE FALSE
      OBVIOUS
    <2>1. p.onchain = proof.onchain
      BY <1>2 DEF Proof
    <2>2. p.onchain = None \/ p.onchain.sig = None
      BY <2>1 DEF Proof
    <2>3. QED  BY <1>5, <2>2, NoneAssumption
  <1>8. p.sig = g /\ p.onchain = answer
    BY <1>2, <1>7, PayloadFields
  <1>9. answer.sig = g
    BY <1>1, <1>5, <1>8, PayloadFields DEF NotFound
  <1>10. p.succeeded = answer.succeeded
    BY <1>2, <1>7, PayloadFields DEF Proof, AttachOnchainProof, AttachDerivedTokenBalances
  <1>11. Deserves(p, s, LevelOf(s))
    BY <1>4, <1>5, <1>6, <1>7, <1>8, <1>9, <1>10 DEF Deserves, Earns
  <1>12. PICK l \in LEVELS : LevelOf(s) = Row(l, LevelOf(s).id, LevelOf(s).vulnerability)
                             /\ l.checks # {}
    BY <1>3 DEF IsSeeded
  <1>13. LevelOf(s).checks = l.checks /\ LevelOf(s).execution = l.execution
    BY <1>12, RowFields
  <1>14. QED  BY <1>3, <1>11, <1>12, <1>13, DeservesToPass

\* A good proof is refused for a cause only, as Null is no transaction.
THEOREM RefusedOnlyForCauseHolds == ASSUME NoneIsNoRecord PROVE Spec => RefusedOnlyForCause
  <1>1. Init => ChainWhole
    BY DEF Init, ChainWhole
  <1>2. ASSUME Inv, ChainWhole, [Next]_vars,
               NEW b \in submissions' \ submissions,
               IsSeeded(LevelOf(b.session)), GoodProof(b, LevelOf(b.session))
        PROVE  b.verified
    <2>1. PICK s \in SessionIds : \E g, w, named, claims :
              SubmitLevel(s, Proof(g, w, named, s, claims))
      <3>1. /\ \A s, row : StartLevel(s, row) => submissions' = submissions
            /\ \A s, w : SetupLevel(s, w) => submissions' = submissions
        BY DEF StartLevel, SetupLevel
      <3>2. \A g, w, row, s, owner, left, ok, moved :
                Land(g, w, row, s, owner, left, ok, moved) => submissions' = submissions
        BY DEF Land
      <3>3. QED  BY <1>2, <3>1, <3>2 DEF Next, vars
    <2>2. QED  BY <1>2, <2>1, GoodProofPasses
  <1>3. Inv /\ ChainWhole /\ [Next]_vars =>
            \A b \in submissions' \ submissions :
                IsSeeded(LevelOf(b.session)) /\ GoodProof(b, LevelOf(b.session)) => b.verified
    BY <1>2
  <1>4. QED
    BY InvInitially, InvStep, <1>1, ChainStaysWhole, <1>3, PTL DEF Spec, RefusedOnlyForCause
=============================================================================
