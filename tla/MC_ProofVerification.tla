------------------------ MODULE MC_ProofVerification ------------------------
(* ProofVerification on a small instance. *)
EXTENDS ProofVerification, TLC

CONSTANTS w1, w2, g1, g2, s1, s2, program

\* A level that will be seeded, made with the challenge and the checks of
\* another one, and a level that asks for balances and states besides.
MCAdminLevels ==
    {Level("level-2-authority-spoofing", 2, None, Common, Execution(FAKE_MINT)),
     Level("vault-heist", 5, None,
           Common \cup {[DefaultCheck("token_balance") EXCEPT !.expected = ClaimedBalances],
                        [DefaultCheck("pda_state") EXCEPT !.expected = ClaimedState],
                        [DefaultCheck("authority") EXCEPT !.expected = ClaimedState]},
           [Execution(FAKE_MINT) EXCEPT !.given = [label \in {} |-> None]])}

MCOmitted == {"official_mint", "trusted_cpi_program"}

Symmetry == Permutations(Wallets) \cup Permutations(SessionIds)

\* One level and one vulnerability by administrators.
MCBound ==
    /\ Cardinality({l \in levels : l.id = NewId(l.slug)}) <= 1
    /\ \A v \in vulnerabilities : v.id = NewId(v.slug) => v.slug = "authority_spoofing"

\* The story of one proof, without the steps that make no difference to it:
\* administrators act first and the script at any time up to the transaction,
\* which is landed for a session that has its challenge, submitted next, and
\* the end.
MCStory ==
    /\ submissions = {}
    /\ chain # {} => \E b \in submissions' : \E t \in chain : t.sig = b.payload.sig
    /\ chain' # {} => \E s \in SessionIds : sessions[s].challenge # NoChallenge
    /\ sessions # [s \in SessionIds |-> NoSession] =>
          \A l \in levels' \ levels : l.slug \in SlugsOf(LEVELS)
    /\ vulnerabilities' # vulnerabilities => levels = {} \/ VULNERABILITIES = SlugsOf(vulnerabilities')
=============================================================================
