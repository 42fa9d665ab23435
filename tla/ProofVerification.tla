-------------------------- MODULE ProofVerification --------------------------
(***************************************************************************)
(* A proof from setup to verdict: the session is bound to a wallet and     *)
(* given a challenge, somebody lands a transaction on Solana devnet, a     *)
(* submission names its signature, the RPC node is asked for it, and the   *)
(* checks that the catalogue holds for the level decide.                   *)
(*                                                                         *)
(* One step is one request; how requests interleave, who may play a level  *)
(* and what a verdict leads to is LevelPlay's, for which this module       *)
(* justifies the assumption Verdicts.  Sessions are of any users; a        *)
(* session takes one submission, which ends it.                            *)
(***************************************************************************)
EXTENDS LevelCatalogue

CONSTANTS
    Wallets, Signatures,
    SessionIds,      \* the sessions there are: a bound when finite
    Omitted,         \* labels that a player may forget in a transaction
    MaxStarted       \* bound on the sessions started

ASSUME NoneAssumption == None \notin Wallets \cup Signatures \cup SessionIds

\* The hash of a session and a wallet is no wallet and no address that a level
\* gives, and no session has the id "solbreach".
ASSUME AddressesAssumption ==
    LET given(l) == {l.execution.given[label] : label \in DOMAIN l.execution.given}
    IN  /\ "solbreach" \notin SessionIds
        /\ \A s \in SessionIds, w \in Wallets, kind \in Supported :
              \A label \in BoundLabels(kind) :
                  Pubkey(<<s, w, label>>) \notin
                      Wallets \cup UNION {given(l) : l \in LEVELS \cup AdminLevels}

VARIABLES
    sessions,        \* [level, active, challenge] of each session
    chain,           \* the transactions confirmed on devnet
    submissions      \* [session, payload, verified]

vars == <<vulnerabilities, levels, sessions, chain, submissions>>

NoSession == [level |-> None, active |-> FALSE, challenge |-> NoChallenge]
LevelOf(s) == CHOOSE row \in levels : row.id = sessions[s].level
SetupWallet(s) == Get(sessions[s].challenge.address, "wallet_address")

Init ==
    /\ CatalogueInit
    /\ sessions = [s \in SessionIds |-> NoSession]
    /\ chain = {} /\ submissions = {}

StartLevel(s, row) ==
    /\ sessions[s] = NoSession
    /\ Cardinality({t \in SessionIds : sessions[t] # NoSession}) < MaxStarted
    /\ sessions' = [sessions EXCEPT ![s] =
                       [level |-> row.id, active |-> TRUE, challenge |-> NoChallenge]]
    /\ UNCHANGED <<vulnerabilities, levels, chain, submissions>>

\* A session that has its challenge is given it again, whatever its level has
\* become.
SetupLevel(s, w) ==
    /\ sessions[s].active
    /\ sessions[s].challenge = NoChallenge
    /\ LevelOf(s).execution.enabled
    /\ LevelOf(s).execution.kind \in Supported
    /\ sessions' = [sessions EXCEPT ![s].challenge = Challenge(LevelOf(s), s, w)]
    /\ UNCHANGED <<vulnerabilities, levels, chain, submissions>>

-----------------------------------------------------------------------------
(* Solana devnet, as _parse_transaction reads it. *)

NoDeltas == [account \in {} |-> 0]
TokenAccounts(challenge) ==
    {Get(challenge.address, label) : label \in {"attacker_token_account", "fake_vault"}} \ {None}
Moved(challenge) ==
    [account \in TokenAccounts(challenge) |->
        IF account = challenge.address["fake_vault"] THEN -1 ELSE 1]

\* A wallet signs a transaction made for the challenge of some session, with
\* all its accounts or all but one, and it succeeds or fails; moved: it takes
\* one token from the fake vault to the attacker's account.
Land(g, w, row, s, owner, left, ok, moved) ==
    LET made == Challenge(row, s, owner)
        keys == made.required \ {Get(made.address, left)}
    IN  /\ g \notin {t.sig : t \in chain} \cup Short
        /\ row.execution.enabled
        /\ chain' = chain \cup
              {[sig |-> g, exists |-> TRUE, succeeded |-> ok, signers |-> {w},
                keys |-> keys \cup {w},
                deltas |-> IF moved THEN Moved(made) ELSE NoDeltas]}
        /\ UNCHANGED <<vulnerabilities, levels, sessions, submissions>>

\* The answer when the node fails, times out, or has not confirmed it yet.
NotFound(g) ==
    [sig |-> g, exists |-> FALSE, succeeded |-> FALSE, signers |-> {}, keys |-> {},
     deltas |-> NoDeltas]

\* Mutant: no answer leaves what the client said of the transaction.
AttachOnchainProofIfFound(p, answer) ==
    IF answer.exists \/ p.onchain = None
    THEN [p EXCEPT !.onchain = answer, !.succeeded = answer.succeeded]
    ELSE p

AttachOnchainProof(p, answer) ==
    [p EXCEPT !.onchain = answer, !.succeeded = answer.succeeded]

\* Token balances are taken from the chain when it tells of them.
AttachDerivedTokenBalances(p, challenge) ==
    LET deltas == p.onchain.deltas
        delta(label) ==
            LET account == Get(challenge.address, label)
            IN  IF account \in DOMAIN deltas THEN deltas[account] ELSE 0
    IN  IF TokenAccounts(challenge) \cap DOMAIN deltas = {} THEN p
        ELSE [p EXCEPT !.token_balances =
                 [attacker_token_delta |-> delta("attacker_token_account"),
                  vault_delta |-> delta("fake_vault")]]

\* _runtime_verification_config
RuntimeChecks(checks, s) ==
    {IF c.type = "session_binding" THEN [c EXCEPT !.session = s, !.wallet = SetupWallet(s)] ELSE c :
        c \in checks}

-----------------------------------------------------------------------------
ClaimedState == [owner |-> 1]
ClaimedBalances == [attacker_token_delta |-> 1, vault_delta |-> -1]

(* What a client sends: a signature, a wallet, a session and, when it says *)
(* more than the documents ask for, fields that claim what is expected.    *)
Proof(g, w, named, s, claims) ==
    LET found == [sig |-> g, exists |-> TRUE, succeeded |-> TRUE, signers |-> {w},
                  keys |-> sessions[s].challenge.required, deltas |-> NoDeltas]
        say(state) == IF claims THEN state ELSE None
    IN  [sig |-> g, wallet |-> w, session |-> named, reused |-> FALSE, succeeded |-> claims,
         onchain |-> say(found), challenge |-> NoChallenge, pda_state |-> say(ClaimedState),
         token_balances |-> say(ClaimedBalances), authority |-> say(ClaimedState)]

SubmitLevel(s, proof) ==
    /\ sessions[s].active
    /\ LevelOf(s).execution.enabled => sessions[s].challenge # NoChallenge
    /\ proof.sig # None => \A b \in submissions : b.payload.sig # proof.sig
    /\ \E answer \in {NotFound(proof.sig)} \cup {t \in chain : t.sig = proof.sig} :
          LET challenge == sessions[s].challenge
              attached == IF proof.sig = None THEN proof
                          ELSE AttachDerivedTokenBalances(
                                   AttachOnchainProof(proof, answer), challenge)
              payload == [attached EXCEPT !.challenge = challenge]
          IN  submissions' = submissions \cup
                  {[session |-> s, payload |-> payload,
                    verified |-> Verify(RuntimeChecks(LevelOf(s).checks, s), payload)]}
    /\ sessions' = [sessions EXCEPT ![s].active = FALSE]
    /\ UNCHANGED <<vulnerabilities, levels, chain>>

Next ==
    \/ CatalogueNext /\ UNCHANGED <<sessions, chain, submissions>>
    \/ \E s \in SessionIds :
          \/ \E row \in levels : StartLevel(s, row)
          \/ \E w \in Wallets : SetupLevel(s, w)
          \/ \E g \in Signatures, w, owner \in Wallets, row \in levels,
                left \in Omitted \cup {None}, ok, moved \in BOOLEAN :
                Land(g, w, row, s, owner, left, ok, moved)
          \/ \E g \in Signatures \cup {None}, w \in Wallets, named \in SessionIds,
                claims \in BOOLEAN : SubmitLevel(s, Proof(g, w, named, s, claims))

Spec == Init /\ [][Next]_vars

-----------------------------------------------------------------------------
(* Properties. *)

TypeOK ==
    /\ \A v \in vulnerabilities : v.slug \in VULNERABILITIES
    /\ \A l \in levels : l.slug \in SlugsOf(LEVELS) \cup SlugsOf(AdminLevels)
    /\ \A s \in SessionIds :
          /\ sessions[s].level \in {None} \cup {l.id : l \in levels}
          /\ sessions[s].active \in BOOLEAN
          /\ sessions[s].challenge.kind \in Supported \cup {None}
    /\ \A t \in chain : t.sig \in Signatures /\ t.exists /\ t.signers \subseteq Wallets
    /\ \A b \in submissions : b.session \in SessionIds /\ b.verified \in BOOLEAN

\* A session was verified by a transaction that is on the chain, succeeded, is
\* signed by the wallet of the setup and has every account of the challenge,
\* in a submission that names this wallet: whatever else the client says,
\* whether or not the node answers, and whatever administrators and the seed
\* script make of its level in between.
Earns(t, s) ==
    /\ t.succeeded
    /\ sessions[s].challenge.kind \in Supported
    /\ SetupWallet(s) \in t.signers
    /\ sessions[s].challenge.required \subseteq t.keys
VerifiedIsEarned ==
    \A b \in submissions : b.verified =>
        /\ b.payload.wallet = SetupWallet(b.session)
        /\ \E t \in chain : t.sig = b.payload.sig /\ Earns(t, b.session)

\* The transaction of a verified session was made for that session: it has an
\* account that no challenge of any other session, of any level and wallet,
\* asks for.  A transaction made for one session does not verify another.
ProofIsForItsSession ==
    \A b \in submissions : b.verified =>
        \E key \in b.payload.onchain.keys :
            /\ key \in sessions[b.session].challenge.required
            /\ \A s \in SessionIds \ {b.session}, w \in Wallets, l \in levels :
                  l.execution.kind \in Supported => key \notin Challenge(l, s, w).required

\* The catalogue, the builders and the checks agree: on a level as it is
\* seeded, a player who names the session and the wallet of the setup and has
\* signed a successful transaction with the accounts of the challenge is only
\* refused if the node does not answer, or if the level was changed since the
\* setup.
GoodProof(b, level) ==
    /\ b.payload.session = b.session /\ b.payload.wallet = SetupWallet(b.session)
    /\ b.payload.onchain \in chain /\ Earns(b.payload.onchain, b.session)
    /\ sessions[b.session].challenge = Challenge(level, b.session, SetupWallet(b.session))
IsSeeded(level) ==
    \E l \in LEVELS : level = Row(l, level.id, level.vulnerability) /\ l.checks # {}
RefusedOnlyForCause ==
    [][\A b \in submissions' \ submissions :
          IsSeeded(LevelOf(b.session)) /\ GoodProof(b, LevelOf(b.session)) => b.verified]_vars

\* Sessions keep their level and levels their vulnerability, in whatever order
\* administrators create and the script seeds the same slugs.
CatalogueIsLinked ==
    /\ \A s \in SessionIds : sessions[s].level # None =>
          \E row \in levels : row.id = sessions[s].level
    /\ \A row \in levels : row.vulnerability # None =>
          \E v \in vulnerabilities : v.id = row.vulnerability
=============================================================================
