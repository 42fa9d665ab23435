-------------------------- MODULE VerificationEngine --------------------------
(***************************************************************************)
(* The deterministic checks of a level's proof and the challenge they are  *)
(* made against, as operators: verification_engine.py and the builders of  *)
(* setup_level.py.  An address is a wallet, a program, or the parts that   *)
(* _pubkey hashes; a challenge is a function from labels to addresses with *)
(* the addresses a proof has to include.                                   *)
(***************************************************************************)
EXTENDS Integers, FiniteSets, Sequences

CONSTANTS
    Short,           \* the signatures with fewer than 16 characters
    None

FAKE_MINT == "fake_mint"
HIJACK == "static_pda_commander_hijack"
CPI == "arbitrary_cpi_delegated_signer_abuse"
Supported == {FAKE_MINT, HIJACK, CPI}
SEQUENCE == <<"target", "signer", "vault", "reward">>

-----------------------------------------------------------------------------
(* Challenges. *)

\* Mutant: the address depends on the label alone.
PubkeyOfLabel(parts) == <<parts[Len(parts)]>>

\* The base58 form of a SHA-256 digest, taken as free of collisions; no part
\* contains the separator, so an address stands for the list of its parts.
Pubkey(parts) == parts

\* Labels derived from the session and the wallet, from the session, from the
\* level; execution may give the program and the official accounts.
BoundLabels(kind) ==
    CASE kind = FAKE_MINT ->
            {"fake_mint", "fake_vault", "challenge_pda", "attacker_token_account"}
      [] kind = HIJACK ->
            {"commander_registry_pda", "trusted_commander_pda", "hijacked_commander_pda",
             "authority_record_pda"}
      [] kind = CPI ->
            {"guild_authority_pda", "level3_state_pda", "bounty_vault_pda",
             "attacker_cpi_program", "player_reward_account", "authority_record_pda"}
SessionLabels(kind) ==
    {"program_id"} \cup (IF kind = FAKE_MINT THEN {"official_mint", "official_vault"} ELSE {})
LevelLabels(kind) ==
    CASE kind = HIJACK -> {"static_seed_pda"}
      [] kind = CPI -> {"trusted_cpi_program"}
      [] OTHER -> {}
Labels(kind) ==
    BoundLabels(kind) \cup SessionLabels(kind) \cup LevelLabels(kind) \cup {"wallet_address"}

\* Mutant: the list of level 3 forgets the account of the trusted program.
RequiredLabelsUntrusted(kind) ==
    IF kind = CPI THEN Labels(kind) \ {"program_id", "trusted_cpi_program"} ELSE Labels(kind)

\* required_accounts: all of them, but not the program of level 3.
RequiredLabels(kind) == IF kind = CPI THEN Labels(kind) \ {"program_id"} ELSE Labels(kind)

Address(level, s, w, label) ==
    LET kind == level.execution.kind
        given == level.execution.given
    IN  CASE label = "wallet_address" -> w
          [] label \in SessionLabels(kind) /\ label \in DOMAIN given -> given[label]
          [] label \in SessionLabels(kind) /\ label \notin DOMAIN given -> Pubkey(<<s, label>>)
          [] label \in LevelLabels(kind) -> Pubkey(<<"solbreach", level.slug, label>>)
          [] OTHER -> Pubkey(<<s, w, label>>)

\* _build_challenge of a supported kind.
Challenge(level, s, w) ==
    LET kind == level.execution.kind
    IN  [kind |-> kind,
         address |-> [label \in Labels(kind) |-> Address(level, s, w, label)],
         required |-> {Address(level, s, w, label) : label \in RequiredLabels(kind)},
         commander |-> IF kind = HIJACK THEN w ELSE None,
         sequence |-> IF kind = CPI THEN SEQUENCE ELSE None]

\* The empty challenge_context of a session that was not set up.
NoChallenge == [kind |-> None, address |-> [label \in {} |-> None], required |-> {},
                commander |-> None, sequence |-> None]

-----------------------------------------------------------------------------
(* Checks. *)

\* dict.get
Get(f, key) == IF key \in DOMAIN f THEN f[key] ELSE None

HijackLabels ==
    {"commander_registry_pda", "trusted_commander_pda", "hijacked_commander_pda",
     "authority_record_pda", "wallet_address"}
CPILabels ==
    {"wallet_address", "guild_authority_pda", "level3_state_pda", "bounty_vault_pda",
     "trusted_cpi_program", "attacker_cpi_program", "player_reward_account",
     "authority_record_pda"}

\* A check of a level's verification_config, with the defaults of its strategy.
DefaultCheck(type) ==
    [type |-> type, session |-> None, wallet |-> None, signature |-> None,
     require_success |-> TRUE, require_wallet_signer |-> TRUE,
     require_challenge_accounts |-> TRUE, required_accounts |-> {}, modified |-> {},
     labels |-> CASE type = "pda_commander_hijack" -> HijackLabels
                  [] type = "delegated_cpi_exploit" -> CPILabels
                  [] OTHER -> {},
     sequence |-> SEQUENCE, expected |-> [field \in {} |-> None]]

SessionBinding(c, p) ==
    /\ c.session # None => p.session = c.session
    /\ c.wallet # None => p.wallet = c.wallet

ReplayProtection(p) == ~p.reused

TransactionSignature(c, p) ==
    /\ p.sig # None /\ p.sig \notin Short
    /\ c.signature # None => p.sig = c.signature
    /\ c.require_success => p.succeeded

Exists(p) == p.onchain # None /\ p.onchain.exists

SolanaTransaction(c, p) ==
    /\ Exists(p)
    /\ c.require_success => p.onchain.succeeded
    /\ c.require_wallet_signer => p.wallet \in p.onchain.signers
    /\ c.require_challenge_accounts => p.challenge.required \subseteq p.onchain.keys
    /\ c.required_accounts \subseteq p.onchain.keys
    /\ \A label \in c.modified : Get(p.challenge.address, label) \in DOMAIN p.onchain.deltas

HasLabels(c, p) ==
    \A label \in c.labels :
        label \in DOMAIN p.challenge.address /\ p.challenge.address[label] \in p.onchain.keys

PDACommanderHijack(c, p) ==
    /\ Exists(p)
    /\ p.challenge.kind = HIJACK
    /\ HasLabels(c, p)
    /\ p.challenge.commander # None => p.challenge.commander = p.wallet

DelegatedCPIExploit(c, p) ==
    /\ Exists(p)
    /\ p.challenge.kind = CPI
    /\ HasLabels(c, p)
    /\ p.challenge.sequence = c.sequence

\* PDAStateStrategy, TokenBalanceStrategy, AuthorityStrategy
Matches(c, actual) ==
    actual # None /\ \A field \in DOMAIN c.expected : Get(actual, field) = c.expected[field]

\* A type without a strategy is a failed check.
Passes(c, p) ==
    CASE c.type = "session_binding" -> SessionBinding(c, p)
      [] c.type = "replay_protection" -> ReplayProtection(p)
      [] c.type = "transaction_signature" -> TransactionSignature(c, p)
      [] c.type = "solana_transaction" -> SolanaTransaction(c, p)
      [] c.type = "pda_commander_hijack" -> PDACommanderHijack(c, p)
      [] c.type = "delegated_cpi_exploit" -> DelegatedCPIExploit(c, p)
      [] c.type = "pda_state" -> Matches(c, p.pda_state)
      [] c.type = "token_balance" -> Matches(c, p.token_balances)
      [] c.type = "authority" -> Matches(c, p.authority)
      [] OTHER -> FALSE

\* VerificationEngine.verify: a level without checks verifies nothing.
Verify(checks, p) == checks # {} /\ \A c \in checks : Passes(c, p)
=============================================================================
