# SolBreach backend: TLA+ models and proofs

SolBreach is a FastAPI service on PostgreSQL (async SQLAlchemy). Players complete
*vulnerability levels* (start, set up a challenge, exploit it on Solana devnet,
submit the transaction as proof) and *research labs* (exploit a simulated
treasury in a sandbox, have the impact verified, write a report). Completed
levels and labs pay experience points; levels also unlock certifications.

Every request is one coroutine with one database transaction. What is hard here
is what happens *between* the statements of two such requests. Almost every
operation reads rows, decides, and writes whole entities back later, without a
lock on what it read; unique keys, row locks and the all-or-nothing commit are
what stands between that and a lost or doubled award. The models are about this,
and take the code's guards, statements and their order one by one.

Paths below are relative to the repository (`src/` in `PROJECT.json`).

## 1. Inventory

| Component | State | Operations | Modelled in |
|---|---|---|---|
| Level gameplay (`app/modules/levels`) | `level_sessions` | start, setup, submit | `LevelPlay` |
| Level access (`level_access.py`) | none, reads levels, progress, sessions | `is_unlocked`, `state_for` | `LevelPlay` |
| Submissions | `submissions`, unique `tx_signature` | replay lookup, insert, verdict | `LevelPlay` |
| Progress and XP of levels | `progress`, unique (user, level); `users.xp`, `users.completed_levels` | `CompleteLevelUseCase` | `LevelPlay`; its promise: `AwardLedger` |
| Certifications | `certifications`, unique (user, slug) | evaluation after a verified submission | `LevelPlay` |
| Analytics | `analytics_events` | one event per gameplay and wallet route; the funnel only reads | `LevelPlay`, `WalletAuth` |
| The users row | `users`, unique `wallet_address` | level award, lab award, wallet link | `UserLedger` |
| Research labs (`app/modules/labs`) | `research_lab_sessions`, `_reports`, `_completions`, `_transactions`, `_verifications`, and listed rows | create, transact, verify, draft, submit, reset | `ResearchLab`, `LabSandbox` (partly: section 8) |
| Sandbox runtime | a JSON state file per lab session | hydrate, submit transaction, verify, reset | `LabSandbox`; seen from outside: `ResearchLab` |
| Wallet authentication | `wallet_auth_nonces`, `users.wallet_address` | nonce, wallet login, link; the lab award's write-back | `WalletAuth`; the row's other columns: `UserLedger` |
| Verification engine | none (pure) | nine strategies | `VerificationEngine`, used by `ProofVerification` |
| Challenge builders | none (a hash of session and wallet) | derive accounts | `VerificationEngine`, used by `ProofVerification` |
| Password authentication, tokens | `users` on registration | register, login, refresh | registration in `WalletAuth`; the others only read |
| Blockchain client | none | reads a transaction over RPC | `ProofVerification`, with the chain as its environment |
| Catalogue administration, seed | `levels`, `vulnerabilities` | create, seed again | `LevelCatalogue`; a constant for `LevelPlay` |
| Event bus | list dropped with its request | publish | not modelled: no subscriber |
| Migrations, settings, deployment | none | none | not modelled: no behaviour |

**Interactions.** A verified submission calls, in its own transaction, progress,
users, certifications and analytics. An accepted lab report calls users. A wallet
link writes users. So three subsystems write one row, `users`, each from an entity
read at a different moment. The sandbox is a file: it is written at once, is not
rolled back, and one lab session's requests share it.

**What is hard, and what makes each component correct:**

* *Levels*: replay lookup, RPC call, insert, award and session write-back of two
  submissions, setups or starts interleave. Correct if a signature proves one
  submission only, a verified submission and its progress, XP, certification and
  event stand or fall together, levels complete in order, a completed level stays
  completed to the player.
* *Users row*: stale entities are written back. Correct if an account holds the
  awards on record (it need not: see findings), never more, and a wallet has one
  owner.
* *Labs*: two stores with one of them outside the transaction; a reset racing
  everything else; lookup before insert for the completion and for the report.
  Correct if the lab is paid once, through one session; completed means paid; a
  report opens through a verification only; an accepted report is what was
  validated (it need not be: see findings).
* *Proofs*: what a client says, what the chain says, the challenge stored at setup
  and the checks of a catalogue that is seeded again under running sessions meet in
  one verdict. Correct if a verified session was earned by a transaction of its own
  wallet made for this very session, and a good proof is refused for a reason only.
* *Sandbox*: the file is written at once and the tables at the commit. Correct if the
  tables and the file tell one story whenever no reset has been disturbed.
* *Locks*: inserts on unique keys and row updates wait; submissions of one
  session can deadlock. Correct if every request ends.
* *Wallet accounts*: the nonce is looked up and consumed, the holder of a wallet
  looked up and created or changed, in separate steps; and a lab award writes the
  wallet back that it read when its request began. Correct if only proven wallets
  sign in or own an account, nobody else takes an account over, a wallet has one
  account, it changes by a signed link only (not so: see findings), and its user
  can always sign in (not so either).

The list of hazards, each at its line with the properties that cover it, is in
`PROJECT.json`.

## 2. The execution model shared by the modules

* **A request** `r` has a program counter `pc[r]` and locals; each step between
  two `await`s on the database is an action. `Arrive(r)` is the first read of a
  route, `Proceed(r)` every later step, `Abort(r)` any exception, time-out,
  disconnect or crash: nothing of the transaction stays (`get_db_session` closes the
  session without a commit).
* **READ COMMITTED.** Reads see the committed tables at that moment, and the
  request's own writes. Writes are kept in `tx[r]` and become visible together in
  `Commit`.
* **Locks.** `WaitsFor(r, q)`: the next statement of `r` needs a row that `q` has
  updated, or a unique key that `q` has inserted, or (foreign keys) a key-share
  lock that a key change of `q` conflicts with. When `q` ends, `r` goes on, or meets
  the key and is rolled back (`IntegrityError`).
* **Write-back.** Repositories copy an entity over a mapped row and SQLAlchemy
  sends the columns that differ (`RowWrites`). In the level and user repositories
  `update()` reads the row again first, so *stale* columns of the entity differ and
  are sent; in the lab service the mapped object itself is changed, so only what
  this request changed is sent. Both behaviours matter and are modelled
  separately (`MergeSession`, `MergeAccount` against `SessionDirty`, `ReportDirty`).
* One process runs all requests on one state file per lab session; a database
  statement is atomic.

## 3. Modules

| Module | Stands for |
|---|---|
| `RowWrites` | which columns a flush sends, and the row after it |
| `AwardLedger` | abstract: each award of a user is paid once, in one step |
| `LevelPlay` | the routes start, setup and submit with all they call |
| `UserLedger` | the three writers of a `users` row, composed |
| `ResearchLab` | lab sessions, reports, completions, and the verdict of the sandbox |
| `LabSandbox` | the sandbox file of a lab session with the rows written beside it; implements `ResearchLab` |
| `VerificationEngine` | operators: the checks of a proof, the challenges they are made against |
| `LevelCatalogue` | levels and vulnerabilities: created, seeded, seeded again |
| `ProofVerification` | setup, transaction, submission, verdict, over `LevelCatalogue` |
| `WalletAuth` | nonces and every writer of the keys of `users`: registration, wallet sign-in, link, lab award; their events |
| `MC_*` | small instances for TLC |
| `LevelPlayProofs`, `LevelLedgerProofs`, `UserLedgerProofs`, `ProofVerificationProofs`, `WalletAuthProofs`, `ResearchLabProofs`, `LabSandboxProofs` | theorems |

**LevelPlay.** `sessions, submissions, progress, users, certifications, analytics`
are the tables; `entity[r]` is the `LevelSession` a request carries, `account[r]` the
`User` of an award. start: `ResumeLevel` or `StartLevel`, `CommitStart`, then
`RecordStart` in a second transaction. setup: `SetupLevel`, `MergeSession`,
`FlushSession`, `Commit`. submit: `SubmitLevel` (all reads before the RPC call),
`InsertSubmission`, and for a verified proof `ReadAccount`, `InsertProgress`,
`MergeAccount`, `FlushAccount`, `EvaluateCertification`; then the session's write-back
and `Commit`. Abstracted: times (session ids grow in start order), the challenge
context (one column `bound` with the wallet it is computed from), the content of a
proof (a verdict, possible only with a signature and the wallet of the set-up
session), ids and texts. Of `setup_at` and `last_submitted_at` only the change is kept
(column `stamp`), for which the write-back always sends an UPDATE and locks the row.
`EvaluateCertification` is one step, while the code awaits between the lookup and the
insert of each certification: the payers of one level are already put in turn by their
progress row, and whoever finds that row committed finds its certification too.

**AwardLedger** is the contract of the award: `Pay(u, a)` adds the award and its
reward in one step. `LevelPlay` implements it with `awarded <- progress`,
`accounts <- users`.

**UserLedger** keeps of a level submission, a report and a wallet link what
concerns the `users` row and the award tables. A lab report and a link use the
entity that `get_current_user` loaded when the request began; a level award reads its
own later. `HoldsKey` is the key-share lock that rows referring to a user hold.

**ResearchLab.** A request loads the session once (`LoadSession`) and then takes
the steps of its route: `ExecuteTransaction` and `VerifyObjective` touch the state
file; `SaveReportDraft`/`SubmitReport`, `AwardXpOnce`, `CreateCompletion`,
`FlushSession`, `UpsertReport`, `FlushReport`; `RefuseDraft` is the answer to a draft
when the report is accepted; `ResetRuntime` (the file), `ClearRuns`
and `ClearReport` (the deletes). `Abort` leaves the file as written. Abstracted: report
fields (`sound` if they pass `_validate_report`; `SentCols` lets a draft send other
fields of the same kind), the state file (does it prove the
impact), `objective_progress` (has it reached 3), rows that are only listed
(transactions and verifications are `LabSandbox`'s); of an expired session nothing
changes.

**LabSandbox.** `file[s]` is what `local_process_runtime.py` keeps of the only lab:
treasury, reward, credit, whether there was a deposit, the log. `Deposit` and
`Withdraw` are the two exploit actions, `Proves` the objective. A request's
transaction holds in `rows[r]` the transaction and the passed verification it
inserts and the ones it deletes; `Held` is the wait for another reset that deletes the
same rows. The steps on the tables that `ResearchLab` already has are conjoined
from it (`Lab!Commit(r)` and so on), so the module is `ResearchLab` with the file in
place of the open verdict: `sandbox <- Verdicts`, checked as `ImplementsResearchLab`.
`trust[s]` is history: `torn` when a reset has overlapped another request of the
session or failed, `whole` again after one that ran alone. The report routes touch none of
this and are left to `ResearchLab`.

**VerificationEngine, LevelCatalogue, ProofVerification.** A check is a record of
a level's `verification_config` with the defaults of its strategy, `Passes` the nine
strategies, `Verify` the verdict. `Challenge` is `_build_challenge` for its three
kinds: labels are derived from session and wallet, from the session, or from the
level, and an address stands for the list of the parts that are hashed (SHA-256
without collisions). `Seed` is a run of `seed_dev_data.py`, which happens at every
deployment: it overwrites the levels it knows by their slug and keeps their ids.
In `ProofVerification` one step is one request (`StartLevel`, `SetupLevel`,
`SubmitLevel`), as interleavings are `LevelPlay`'s; `Land` is the environment: a wallet
lands a transaction made for the challenge of any session, complete or with an account
left out, which succeeds or fails. `AttachOnchainProof` and
`AttachDerivedTokenBalances` replace what the client claims by what the node answers;
`NotFound` is also the answer of a node that fails or times out. A level with checks
has the four common ones and a challenge (`AdminLevelsAssumption`): an administrator
who leaves out the replay check or the challenge gets a level that any successful
transaction of its player passes, as its own configuration says. `LevelPlay`'s
`Verdicts`, which lets a proof pass only with a signature and the wallet of the
set-up session, is what `VerifiedIsEarned` justifies.

**WalletAuth.** `nonces` and `events` are tables; `users[m]` is the wallet of the
account with username `m` (unique and never changed, so it stands for the row).
Sign-in: `BeginLogin` (nonce and signature), `Consume`, `FindHolder`, then `Insert`
for a new account, `Record`, `Commit`. Link: `BeginLink`, `CheckHolder`, `Consume`,
`Merge`, `Flush`, `Record`, `Commit`. Registration: `BeginRegister`, `Insert`,
`Commit`. Lab award: `BeginAward` loads the account (`get_current_user`), `Grant` inserts
the completion, `Merge` and `Flush` write the account as it was loaded, wallet included,
`Commit`. The level award reads the account again while its submission holds the key, so
it never changes the wallet and is left to `UserLedger`. `Consume` does not look at the nonce again, as in the code: two requests
that have read it both go on, one after the other. `KeyWaits` is the wait on the
unique username and wallet, also on a wallet that an open link gives up; a `Record`
waits for an open link that changes the account it refers to, and the other way
round. Abstracted: e-mail addresses (as distinct as usernames), signatures (valid, or
the request leaves no trace), clock time (`Expire` at any moment after the issue).

## 4. Runs

| Run | Instance | Shows |
|---|---|---|
| `level_play` | 1 player, 1 wallet, levels 2 and 3, 2 signatures, 2 concurrent requests, 2 sessions, 2 submissions, no symmetry | type invariant, eight properties of the gameplay tables; every request ends, deadlocks of two submissions included |
| `level_play_contention` | 2 players, level 2, 2 signatures, 3 concurrent requests, 2 sessions, 2 submissions | replay and uniqueness across players; `LevelPlay` implements `AwardLedger` |
| `user_ledger` | 2 users, 2 wallets, level 1, one lab, 2 requests | never overpaid, one owner per wallet, no circle of waits |
| `research_lab` | 1 user, 2 sessions, 2 requests | the lab is paid once; completed means paid; reports open by verification; circles of waits have a submission and a reset |
| `wallet_auth` | 2 wallets, 2 usernames (those of the wallets), 2 nonces of which one may expire, 2 requests, no symmetry | wallets are proven, logged and have one account; only links and awards of the user move them; no circle of waits; every request ends |
| `verification` | 2 wallets, 2 signatures (one too short), 2 sessions of which one is started, 4 seeded and 2 other levels | a verified session is earned, by a transaction made for it; good proofs pass; the catalogue stays linked |
| `lab_sandbox` | 1 user, 1 session, 2 requests, 3 transactions and 3 passed verifications | tables and file agree; `LabSandbox` implements `ResearchLab`; every request ends |
| `level_reopened`, `user_ledger_lost`, `research_lab_accepted`, `wallet_reverted`, `wallet_lockout` | small instances | the findings of section 6 |

**Why these bounds.** The races are between two requests; a third matters only
when it queues behind one that waits, which `level_play_contention` has. A request
slot is reused, so "two requests" means any number one after the other against
each. Levels 2 and 3 are the two with a certification, the higher of them guarded by
the lower; 2 sessions allow a replay after a completed or a failed one, or one session
of each level. `MaxSessions` and `MaxSubmissions` bound rows that only grow. Two users
and two wallets are what a wallet taken, given up and carried back needs. In
`research_lab` the constraint `TwoSessionsBound` keeps the product of two sessions
small: with one session everything is explored; while there are two, none is being
reset and reports are sound and not re-created. Deadlock checking is off in the level
runs, where the bounds on rows leave players with nothing to do; that requests do
not block each other for good is `EveryRequestEnds`.

In `wallet_auth` a registration
may take either username, so two registered users, or one and a new wallet account,
compete for a wallet; names and nonces are used up, hence no deadlock check there.
The constraint `OneExpires` lets one of the two nonces expire: they are interchangeable,
and an expired one is only refused.

In `verification` one session is enough because a second one matters only through
transactions made for it, which `Land` has without its being started. `MCStory`
leaves out what makes no difference to a verdict: administrators act before
the session starts, the script at any time until the transaction, and one submission
ends the story. `MCBound` allows one level and one vulnerability of the administrators.
Of the labels a player may forget, one is checked through `required_accounts` and
one through the level's own check too.

In `lab_sandbox` three transactions are what a deposit and two withdrawals need,
and three passed verifications let a session be passed, reset and passed with
two requests at work. One session is enough: sessions share no file and no rows. Deadlock
is checked. No symmetry is used, as a liveness property is.

Symmetry is used over interchangeable users, wallets, signatures, requests and lab
sessions, in safety runs only.

**Fairness.** `FairSpec` asks strong fairness of `Proceed(r)`: the event loop resumes
each coroutine whose database call has returned, and PostgreSQL queues those who wait
for a lock, so a request that can go on again and again does. Nothing is assumed of
players, and of `Abort` only what circles of waits need:

* `LevelPlay` has them between the submissions of one session. Its `FairSpec` adds weak
  fairness of `BreakDeadlock`: the deadlock detector aborts one transaction of each.
* `WalletAuth` has none: requests lock the nonce or the completion, then the account,
  then refer to it (`NoCircularWait`, proved).
* `UserLedger` has none as long as there is one lab (`NoCircularWait`, proved); with two,
  two lab awards of one user that both carry an old wallet back would wait for each other.
* `LabSandbox` has none: its requests wait for a reset's deletes and for the session row,
  always in this order, and all of them end.
* `ResearchLab`, with the report routes, has one kind: a submission locks the session and
  then the report, a reset the report and then the session. That there is no other is
  `CirclesAreSubmitAndReset` (proved); the detector aborts one of the two.

Every property of a passing run has a mutant in `PROJECT.json`: an operator
`...Always`, `...Twice`, `...NoUnique` and so on next to the definition it replaces, with
which TLC finds the property violated.

## 5. Proofs

TLAPS checks these for every value of the constants (any number of players,
requests, levels, wallets, rows).

*LevelPlay* (`LevelPlayProofs`, `LevelLedgerProofs`): type correctness and every
safety property of its passing runs, the refinement of `AwardLedger` included. The
properties are not inductive; the argument is:

1. `TypeInv`, then `WritesInv`: what `tx[r]` holds agrees with `pc[r]` and `call[r]`
   (a request past the insert has its submission pending, and so on). This gives
   `VerifiedMeansProgress` and the submission events, because `Publish` makes both
   sides visible at once.
2. `SignaturesInv`: pending and committed signatures are distinct, since an insert
   waits for pending ones and checks committed ones. Hence `SignatureUsedOnce`.
   `SessionsInv` relates signatures of sessions and of carried entities to the
   submission that brought them. Hence `SessionSignaturesDistinct` although
   entities are stale, `CompletedSessionHasProgress` and `SetupIsNotUndone`.
3. `UnlockedInv`: a request past the access check belongs to an unlocked level, and
   progress never shrinks. With `Contiguous` this is `ProgressIsSequential`.
4. `PayInv` with `OnePayer`: two requests that both hold an uncommitted award of one
   user would be of two different levels, both unlocked and not completed, which
   contiguous orders exclude. So the account that a payer carries still equals the
   committed one plus its reward, and writing it back as a value is right. Hence
   `LedgerMatchesProgress` and `LedgerImplemented`.
5. `CertsInv`: pending and held certifications follow progress.

*UserLedger* (`UserLedgerProofs`): `CreditInv` says that the XP in every committed or
carried account is covered by awards on record, plus for a carrier that has added
its own reward that one award, not on record yet (`Within`, `Claim`). An award row
that is already taken rolls the request back, so the claim is met at its commit.
Hence `NeverOverpaid`. `WalletInv` adds what the unique index and its waits keep:
no two open transactions set one wallet, nor one that a committed row holds. Hence
`WalletHasOneUser`. `WaitInv` tells what a request holds at each point: an award row
once it has inserted it, no two open ones the same, and for a level award, by its
submission, the key of the users row from the start. So the wallet it reads stays as it
is, and only lab awards and links ever write one. Each request then waits only for one of
higher `Rank`, its point in the order of locks, and the highest of a set waits for none:
`NoCircularWait`.

*WalletAuth* (`WalletAuthProofs`): type correctness and every safety property of its run.
`TypeInv` adds to the types what a request past each point has in hand (`CallOK`) and has
written (`WritesOK`). `KeysInv` is about the unique keys: two open transactions never
write one name or one wallet, nor a wallet that a committed account of another name
holds, nor a new name that is taken. The lookups of the code say nothing of this, as
they are old by the time of the write; the index and its waits do. `WalletIsProven`,
`WalletHasOneAccount` and `WalletsAreLogged` are conjoined, as the commit of each needs
`KeysInv` and the written nonce and event. A lab award carries a wallet of an earlier
time: `AwardsInv` says that an event tells of it, `GrantsInv` that two open awards are
never of one account. `WalletIsNotTakenOver` follows from the whole step by step: the
wallet of an account on record changes by a link that its own user has signed, or by an
award of this user, to none or to one that the account has proven. `NoCircularWait`
again gives every request a rank, with a level for the completion.

*ResearchLab* (`ResearchLabProofs`): type correctness and every property of its run.
`TypeInv` says that sessions on record have an owner, that idle requests hold nothing, and
how the entity a request carries relates to the row it loaded (`MemoryOK`). `AwardInv` is
why the lookup before the completion's insert does not matter: a request whose completion
is pending is the only one of its user (`GrantOK`), and an entity or report shows an
award only if its own transaction brings the completion or one is on record
(`AwardOK`). `StatusInv` says that a carried status is `passed` only if loaded so or
verified by this request, so only a verification ever sends it. `HoldsInv` says which
locks a request can hold at each point. Every wait is then for a request at a later point
of one order (insert of the completion or delete of the report, update of the session,
write of the report, update of the session by a reset), where only the last waits for an
earlier one, and then for a submission of its session: `CirclesAreSubmitAndReset`.

*LabSandbox* (`LabSandboxProofs`): type correctness, `TablesMatchFile`, and the refinement
of `ResearchLab`. `RequestInv` relates what a request has written, carries and is about to
delete to its point; `RoomInv` that the bound on rows counts pending ones. `StoryInv`
says what `TablesMatchFile` needs of the open transactions while trust is `whole`
(`WholeOK`: a pending passed verification stands over a file that proves it, pending
logs are in the file), and what a lone reset has restored on its way from `torn` to `whole`
(`HealingOK`). `ResearchLabProofs` is instantiated through the refinement
(`sandbox <- Verdicts`), so its invariants serve here without being proved again, and its
theorems carry over: `VerificationOpensReportKept` is one.

*ProofVerification* (`ProofVerificationProofs`): type correctness and all properties of
its run. `LevelsInv` says that a slug names one level, so that the script finds the id
of the row it overwrites, and that a level with checks has the common ones;
`SessionsInv` that a session's level exists and its challenge is empty or built for
this session and a wallet. `VerdictIsEarned` goes through the common checks: each one is
needed, the binding filled in at submission included. `SubmissionsInv` carries the
conclusion on, since a verified session is inactive and has its challenge, which no
step changes then. `ProofIsForItsSession` adds that the account hashed from session and
wallet is among the required ones and differs from every address another challenge
can require. `RefusedOnlyForCause` goes the other way: `LabelsRequired` says that the
labels the checks of levels 2 and 3 look for are labels the builders make and the
required accounts include.

**Assumptions.** Those named in the modules: `LevelsAssumption` and
`AwardsAssumption` (finite catalogue, non-negative rewards, `TotalReward` is their
sum), `ActorsAssumption`, `WalletsAssumption`, `BoundsAssumption`, `AdminLevelsAssumption`,
`NoneAssumption` and `MarkersAssumption` (null is no user, session or wallet),
`NamesAssumption` (a wallet has one derived username), `RequestsAssumption` (finitely many
requests are open at once), `MaxRowsAssumption`, `AddressesAssumption` (a hash of a session and a wallet is no wallet and
no given address); in `RefusedOnlyForCauseHolds` also that null is not the record of a
transaction (`NoneIsNoRecord`); and, in the theorems
that say so, `Contiguous`: the orders of active levels have no gap, as in the seeded
catalogue. It is needed: with a gap, the level after it is open to everyone, two
levels of a player can be completed concurrently and one award is overwritten.

**Left to TLC**: liveness (`EveryRequestEnds`), which the prover cannot do under
fairness, and the counterexamples of section 6. Every invariant and action property of a
passing run is a theorem, and so are both refinements.

## 6. Findings

Each is a property taken from the documents or from the code's own messages, and a
short run in which TLC violates it.

1. `level_reopened`: a verified submission "marks the session completed"
   (README.md:83). A setup or second submission that read the session before writes
   `in_progress` or `failed` over it.
2. `user_ledger_lost`: XP is awarded once for a level (README.md:85). A wallet link or
   a lab award that read the account earlier sets it back, and the award is not
   repeated because its row is on record.
3. `research_lab_accepted`: a draft over an accepted report is refused
   (research_labs.py:338), and acceptance validates the report. A draft saved while
   a submission is under way puts fields that were never validated into the accepted
   report.
4. `wallet_reverted`: the wallet that a user has linked is enforced
   (tests/integration/test_wallet_auth_analytics.py:68). A lab award that loaded the
   account before a link writes the former wallet back (research_labs.py:494,
   sqlalchemy_user_repository.py:81), with no nonce, signature or event. What does hold is
   `WalletIsNotTakenOver`.
5. `wallet_lockout`: a wallet login creates a wallet-owned user
   (tests/integration/test_wallet_auth_analytics.py:59). The account keeps the
   username made of its first wallet when it is linked to a second; a login with the
   first finds no account, and the one it would create has a username that is taken.

Differences between documents and code that are behaviours of the models, or need no
model, and have no run of their own:

* A setup with a second wallet is refused, "Level session is already bound to another
  wallet" (docs/frontend_level1_integration.md:311). Two concurrent setups both find the
  session unbound (setup_level.py:63), and the later one replaces wallet and challenge
  (line 88). `SetupIsNotUndone` is what holds: the session stays bound to one.
* "Users complete levels sequentially" (progression_system.md:62), but `is_unlocked` lets
  everyone pass where no level has the order before (level_access.py:38). With levels 1
  and 3, TLC violates `ProgressIsSequential`, and, as both levels of a player can then be
  completed at once, `LedgerMatchesProgress`. `create_level.py` accepts such orders; the
  seeded ones are contiguous, as in the runs and in `Contiguous` of section 5.
* A reset should "restore initial file templates" and "clear test results"
  (docs/research_labs_backend_handoff.md:593). A verification that has read the file before
  and commits during the reset leaves the session passed over the restored file
  (research_labs.py:431 changes the object it loaded, and the flush sends no status that
  was active already). What holds, and how a session is repaired, is `TablesMatchFile`.
* The certification evaluation returns when the level 3 certification exists
  (evaluate_certification_eligibility.py:37). It does by the time the beginner path
  of progression_system.md:92 is complete, so that one is never created.
* `attempt_number` is a count taken before the insert (submit_level.py:95): two
  concurrent submissions of one level get the same.
* The terminal sequence is "monotonic per session"
  (docs/research_labs_backend_handoff.md:366) but starts again after a reset, and resets
  that overlap can break `uq_research_lab_terminal_sequence`.
* An expired lab session is marked and flushed, and the raised exception rolls the
  mark back (research_labs.py:454).
* Nothing keeps two active levels from having one order; the access check of the next
  level then raises on every request.

`progress` without gaps, one award per level, one owner per wallet, one use of a
signature do hold, and are proved.

## 7. Plan

1. Where circles of waits can be in `LevelPlay`: that one needs two submissions of one
   session, as `CirclesAreSubmitAndReset` says of labs. TLC first, then the order of locks.
2. What each finding leaves intact: `UserLedger` pays an account in full when no
   stale account is written back, that is, when requests of one user do not overlap.
3. Rows of a lab beyond `MaxRows`, where the treasury falls below zero.

## 8. Not modelled

* Terminal lines and file snapshots of a lab: texts that are stored and listed, and
  decide nothing. Their numbering is described in section 6.
* Patching files and running tests in the sandbox: the only lab of the catalogue
  refuses both. The Modal runtime is a stub that raises.
* Analytics events of the lab routes: one more insert of the same transaction, read by
  the funnel only.
* The administrator account of the seed script, texts, stages and XP of seeded levels.
* The event bus (each request drops its own, nothing subscribes), settings, wiring,
  migrations, and every route that only reads.
