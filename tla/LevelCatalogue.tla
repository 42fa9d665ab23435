---------------------------- MODULE LevelCatalogue ----------------------------
(***************************************************************************)
(* The catalogue: vulnerabilities and levels created by administrators and *)
(* by the script seed_dev_data.py, which is run again at every deployment  *)
(* and overwrites the levels it knows by their slug.  Each action is one   *)
(* transaction; a slug taken meanwhile breaks a unique key and undoes it.  *)
(*                                                                         *)
(* Abstractions: texts, XP and stages are left out (every level is an      *)
(* active one of the stage vulnerabilities); of execution, whether it is   *)
(* enabled, the kind of challenge and the addresses it gives.              *)
(***************************************************************************)
EXTENDS VerificationEngine

CONSTANTS
    SystemProgram,   \* the program_id of every seeded level
    AdminLevels      \* levels that administrators may create, without their ids

VARIABLES
    vulnerabilities, \* [slug, id]
    levels           \* [id, slug, order, vulnerability, checks, execution]

Common == {DefaultCheck(type) : type \in {"session_binding", "replay_protection",
                                          "transaction_signature", "solana_transaction"}}
NoExecution == [enabled |-> FALSE, kind |-> FAKE_MINT, given |-> [label \in {} |-> None]]
Execution(kind) ==
    [enabled |-> TRUE, kind |-> kind, given |-> [label \in {"program_id"} |-> SystemProgram]]

Level(slug, order, vulnerability, checks, execution) ==
    [slug |-> slug, order |-> order, vulnerability |-> vulnerability, checks |-> checks,
     execution |-> execution]

VULNERABILITIES ==
    {"pda_state_validation", "fake_mint", "authority_spoofing", "unchecked_cpi",
     "advanced_bounty_drainer"}

FakeMintLevel == Level("level-1-fake-mint", 1, "fake_mint", Common, Execution(FAKE_MINT))
AuthoritySpoofingLevel ==
    Level("level-2-authority-spoofing", 2, "authority_spoofing",
          Common \cup {DefaultCheck("pda_commander_hijack")}, Execution(HIJACK))
UncheckedCPILevel ==
    Level("level-3-unchecked-cpi", 3, "unchecked_cpi",
          Common \cup {DefaultCheck("delegated_cpi_exploit")}, Execution(CPI))
BountyDrainerLevel ==
    Level("level-4-advanced-bounty-drainer", 4, "advanced_bounty_drainer", {}, NoExecution)
LEVELS == {FakeMintLevel, AuthoritySpoofingLevel, UncheckedCPILevel, BountyDrainerLevel}

\* A level of the administrators has no checks, or the four common ones and a
\* challenge to make them against.
ASSUME AdminLevelsAssumption ==
    \A l \in AdminLevels : l.checks # {} => Common \subseteq l.checks /\ l.execution.enabled

StableId(slug) == <<"solbreach", slug>>
NewId(slug) == <<"uuid4", slug>>
SlugsOf(rows) == {row.slug : row \in rows}

CatalogueInit == vulnerabilities = {} /\ levels = {}

\* POST /vulnerabilities
CreateVulnerability(slug) ==
    /\ slug \notin SlugsOf(vulnerabilities)
    /\ vulnerabilities' = vulnerabilities \cup {[slug |-> slug, id |-> NewId(slug)]}
    /\ UNCHANGED levels

Row(level, id, vulnerability) ==
    [id |-> id, slug |-> level.slug, order |-> level.order, vulnerability |-> vulnerability,
     checks |-> level.checks, execution |-> level.execution]

\* POST /levels
CreateLevel(level) ==
    /\ level.slug \notin SlugsOf(levels)
    /\ \E v \in {row.id : row \in vulnerabilities} \cup {None} :
          levels' = levels \cup {Row(level, NewId(level.slug), v)}
    /\ UNCHANGED vulnerabilities

Seeded(slugs, rows) ==
    rows \cup {[slug |-> slug, id |-> StableId(slug)] : slug \in slugs \ SlugsOf(rows)}

\* Mutant: the script replaces a level together with its id.
LevelIdFresh(slug) == StableId(slug)

\* A level keeps its id for good: the sessions and submissions point to it.
LevelId(slug) ==
    IF slug \in SlugsOf(levels) THEN (CHOOSE row \in levels : row.slug = slug).id
                                ELSE StableId(slug)

\* Mutant: the id that the script gives, whoever has made the row.
VulnerabilityIdStable(slug) == StableId(slug)

VulnerabilityId(slug) == (CHOOSE row \in vulnerabilities' : row.slug = slug).id

\* seed_development_data
Seed ==
    /\ vulnerabilities' = Seeded(VULNERABILITIES, vulnerabilities)
    /\ levels' = {row \in levels : row.slug \notin SlugsOf(LEVELS)}
           \cup {Row(l, LevelId(l.slug), VulnerabilityId(l.vulnerability)) : l \in LEVELS}

CatalogueNext ==
    \/ \E slug \in VULNERABILITIES : CreateVulnerability(slug)
    \/ \E level \in AdminLevels : CreateLevel(level)
    \/ Seed
=============================================================================
