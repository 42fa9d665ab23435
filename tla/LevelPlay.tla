---------------------------- MODULE LevelPlay ----------------------------
(***************************************************************************)
(* The gameplay loop of a vulnerability level: the routes start, setup and *)
(* submit of app/modules/levels, with everything they call (level access,  *)
(* submissions, progress, XP, certifications, analytics), run by requests  *)
(* that interleave between their database calls.                           *)
(*                                                                         *)
(* A request owns one AsyncSession, that is one PostgreSQL transaction at  *)
(* READ COMMITTED: what it reads is what is committed at that moment (plus *)
(* its own writes), what it writes stays in tx until Commit, an updated    *)
(* row stays locked until then, and an INSERT that collides with a unique  *)
(* key of another open transaction waits for that transaction to end.      *)
(* Any exception, timeout or crash before the commit is a rollback: Abort. *)
(*                                                                         *)
(* Abstractions: the values of timestamps are dropped (session ids grow in *)
(* start order);                                                           *)
(* wallet_address and challenge_context of a session, always written       *)
(* together and the second computed from the first, are one column, bound; *)
(* a proof is a signature, a wallet and the verdict of the checks.         *)
(***************************************************************************)
EXTENDS Integers, FiniteSets, RowWrites

CONSTANTS
    Users, Wallets, Signatures, Requests,
    Levels,          \* the orders of the active vulnerability levels
    Executable,      \* the levels whose execution is enabled
    XpReward,        \* [Levels -> Nat]
    TotalReward,     \* [SUBSET Levels -> Nat]: the sum of XpReward over a set
    Linked,          \* [Users -> Wallets \cup {None}]: users.wallet_address
    MaxSessions,     \* bound on level_sessions rows
    MaxSubmissions,  \* bound on submissions rows
    None

ASSUME LevelsAssumption ==
    /\ Levels \in SUBSET Nat /\ IsFiniteSet(Levels) /\ Levels # {}
    /\ Executable \in SUBSET Levels
    /\ XpReward \in [Levels -> Nat]
    /\ TotalReward \in [SUBSET Levels -> Nat]
    /\ TotalReward[{}] = 0
    /\ \A done \in SUBSET Levels, l \in Levels :
          l \notin done => TotalReward[done \cup {l}] = TotalReward[done] + XpReward[l]
ASSUME ActorsAssumption ==
    /\ Linked \in [Users -> Wallets \cup {None}]
    /\ None \notin Users \cup Wallets \cup Signatures
ASSUME BoundsAssumption == MaxSessions \in Nat /\ MaxSubmissions \in Nat

VARIABLES
    sessions, submissions, progress, users, certifications, analytics, \* committed
    pc, call, entity, account, dirty, tx                               \* per request

tables == <<sessions, submissions, progress, users, certifications, analytics>>
locals == <<pc, call, entity, account, dirty, tx>>
vars == <<tables, locals>>

SessionIds == 1 .. MaxSessions
SubmissionIds == 1 .. MaxSubmissions

BEGINNER == "beginner-vulnerability-path"
LEVEL_2 == "static-pda-commander-hijack"
LEVEL_3 == "arbitrary-cpi-delegated-signer-abuse"

SessionRow ==
    [owner : Users \cup {None}, level : Levels \cup {None},
     state : {"absent", "in_progress", "completed", "failed"},
     exploit : {"not_started", "setup_ready", "verified", "failed"},
     bound : Wallets \cup {None}, attempts : Nat, sig : Signatures \cup {None}]

UserRow == [xp : Nat, completed_levels : Nat]

Submission ==
    [id : SubmissionIds, user : Users, level : Levels, session : SessionIds,
     number : Nat, sig : Signatures \cup {None}, wallet : Wallets, verified : BOOLEAN]

Call ==
    [op : {"none", "start", "setup", "submit"}, user : Users \cup {None},
     level : Levels \cup {None}, wallet : Wallets \cup {None},
     sig : Signatures \cup {None}, session : SessionIds \cup {0}]

Event ==
    [type : {"level_started", "level_setup_ready",
             "level_submission_verified", "level_submission_rejected"},
     user : Users, level : Levels]

\* stamp: setup_at or last_submitted_at, of which only the change matters.
SessionCols == {"owner", "level", "state", "exploit", "bound", "attempts", "sig", "stamp"}
UserCols == {"xp", "completed_levels"}
Slugs == {BEGINNER, LEVEL_2, LEVEL_3}

\* The writes of an open transaction: the columns of the entity and of the
\* account it has updated (opened: the entity is a row to insert), and the
\* rows it has inserted.
Transaction ==
    [opened : BOOLEAN, sessionCols : SUBSET SessionCols,
     submission : SUBSET Submission, granted : BOOLEAN,
     userCols : SUBSET UserCols, certs : SUBSET Slugs]

NoSession == [owner |-> None, level |-> None, state |-> "absent", exploit |-> "not_started",
              bound |-> None, attempts |-> 0, sig |-> None]
NoAccount == [xp |-> 0, completed_levels |-> 0]
NoCall == [op |-> "none", user |-> None, level |-> None, wallet |-> None,
           sig |-> None, session |-> 0]
NoWrites == [opened |-> FALSE, sessionCols |-> {}, submission |-> {}, granted |-> FALSE,
             userCols |-> {}, certs |-> {}]

PCs == {"idle", "insert", "complete", "grant", "account_merge", "account_flush", "certify",
        "session_merge", "session_flush", "commit", "record"}

-----------------------------------------------------------------------------
(* What a statement sees. *)

SessionsOf(u, l) ==
    {s \in SessionIds : sessions[s].owner = u /\ sessions[s].level = l}

ActiveSessions(u, l) == {s \in SessionsOf(u, l) : sessions[s].state = "in_progress"}

\* ORDER BY started_at DESC LIMIT 1
IsNewest(s, S) == s \in S /\ \A t \in S : t <= s

\* Mutant: the previous level is not looked up.
IsUnlockedAlways(u, l) == TRUE

\* LevelAccessService.is_unlocked
IsUnlocked(u, l) ==
    \/ \A k \in Levels : l <= k
    \/ l - 1 \notin Levels
    \/ <<u, l - 1>> \in progress

\* Mutant: a failed replay is reported before the progress row is looked up.
StateForFailedFirst(u, l) ==
    IF \E s \in SessionIds : IsNewest(s, SessionsOf(u, l)) /\ sessions[s].state = "failed"
    THEN "failed"
    ELSE IF <<u, l>> \in progress THEN "completed" ELSE "in_progress"

\* LevelAccessService.state_for the latest session
StateFor(u, l) ==
    LET latestIs(state) ==
            \E s \in SessionIds : IsNewest(s, SessionsOf(u, l)) /\ sessions[s].state = state
        done == <<u, l>> \in progress
    IN  CASE ~IsUnlocked(u, l) -> "locked"
          [] IsUnlocked(u, l) /\ latestIs("in_progress") -> "in_progress"
          [] IsUnlocked(u, l) /\ ~latestIs("in_progress") /\ done -> "completed"
          [] IsUnlocked(u, l) /\ ~done /\ latestIs("failed") -> "failed"
          [] OTHER -> "available"

\* Mutant: no replay check and no unique key.
SignatureTakenNever(g) == FALSE

\* SubmissionRepository.get_by_tx_signature
SignatureTaken(g) == g # None /\ \E b \in submissions : b.sig = g

\* Mutant: the progress row is not part of the transaction.
VisibleProgressCommitted(r) == progress

\* Progress rows that request r sees: the committed ones and its own.
VisibleProgress(r) ==
    progress \cup (IF tx[r].granted THEN {<<call[r].user, call[r].level>>} ELSE {})

-----------------------------------------------------------------------------
(* Locks.  q stands in the way of the next statement of r. *)

SameSession(r, q) == call[q].session = call[r].session

\* Mutant: submissions.tx_signature without its unique index.
InsertWaitsNoUnique(r, q) ==
    pc[r] = "insert" /\ SameSession(r, q) /\ "sig" \in tx[q].sessionCols

\* The unique index on submissions.tx_signature, and the FOR KEY SHARE lock
\* that the foreign key of a new submission takes on its session row.
InsertWaits(r, q) ==
    /\ pc[r] = "insert"
    /\ \/ call[r].sig # None /\ \E b \in tx[q].submission : b.sig = call[r].sig
       \/ SameSession(r, q) /\ "sig" \in tx[q].sessionCols

\* uq_progress_user_level
GrantWaits(r, q) ==
    /\ pc[r] = "grant" /\ tx[q].granted
    /\ call[q].user = call[r].user /\ call[q].level = call[r].level

AccountWaits(r, q) ==
    pc[r] = "account_flush" /\ call[q].user = call[r].user /\ tx[q].userCols # {}

\* uq_certifications_user_slug
CertifyWaits(r, q) ==
    pc[r] = "certify" /\ call[q].user = call[r].user /\ tx[q].certs # {}

\* The row lock of another UPDATE; a change of the unique column tx_signature
\* also conflicts with the FOR KEY SHARE of another new submission.
SessionWaits(r, q) ==
    /\ pc[r] = "session_flush" /\ SameSession(r, q)
    /\ tx[q].sessionCols # {} \/ ("sig" \in dirty[r] /\ tx[q].submission # {})

WaitsFor(r, q) ==
    /\ q # r
    /\ \/ InsertWaits(r, q) \/ GrantWaits(r, q) \/ AccountWaits(r, q)
       \/ CertifyWaits(r, q) \/ SessionWaits(r, q)

Waits(r) == \E q \in Requests : WaitsFor(r, q)

-----------------------------------------------------------------------------
Init ==
    /\ sessions = [s \in SessionIds |-> NoSession]
    /\ submissions = {} /\ progress = {} /\ certifications = {} /\ analytics = {}
    /\ users = [u \in Users |-> NoAccount]
    /\ pc = [r \in Requests |-> "idle"]
    /\ call = [r \in Requests |-> NoCall]
    /\ entity = [r \in Requests |-> NoSession]
    /\ account = [r \in Requests |-> NoAccount]
    /\ dirty = [r \in Requests |-> {}]
    /\ tx = [r \in Requests |-> NoWrites]

\* Mutant: the transaction of an ended request is left open.
CloseKeepingWrites(r) ==
    /\ pc' = [pc EXCEPT ![r] = "idle"]
    /\ UNCHANGED <<call, entity, account, dirty, tx>>

\* The request ends: its AsyncSession is closed and its writes are forgotten.
Close(r) ==
    /\ pc' = [pc EXCEPT ![r] = "idle"]
    /\ call' = [call EXCEPT ![r] = NoCall]
    /\ entity' = [entity EXCEPT ![r] = NoSession]
    /\ account' = [account EXCEPT ![r] = NoAccount]
    /\ dirty' = [dirty EXCEPT ![r] = {}]
    /\ tx' = [tx EXCEPT ![r] = NoWrites]

\* An exception, a client that leaves, a deadlock victim, a crash: rollback.
Abort(r) ==
    /\ pc[r] # "idle"
    /\ Close(r)
    /\ UNCHANGED tables

Goto(r, label) == pc' = [pc EXCEPT ![r] = label]

-----------------------------------------------------------------------------
(* POST /levels/{id}/start *)

NewCall(op, u, l, w, g, s) ==
    [op |-> op, user |-> u, level |-> l, wallet |-> w, sig |-> g, session |-> s]

UsedSessionIds ==
    {s \in SessionIds : sessions[s].state # "absent"}
        \cup {call[q].session : q \in {p \in Requests : tx[p].opened}}

IsNextSession(s) ==
    /\ \A t \in UsedSessionIds : t < s
    /\ \A t \in SessionIds : (\A x \in UsedSessionIds : x < t) => s <= t

\* An active session is returned as it is: only the analytics event remains.
ResumeLevel(r, u, l) ==
    /\ pc[r] = "idle"
    /\ IsUnlocked(u, l)
    /\ \E s \in SessionIds :
          /\ IsNewest(s, ActiveSessions(u, l))
          /\ call' = [call EXCEPT ![r] = NewCall("start", u, l, None, None, s)]
    /\ Goto(r, "record")
    /\ UNCHANGED <<tables, entity, account, dirty, tx>>

\* Mutant: the session starts in the state the level had before.
NewSessionAvailable(u, l) == [NoSession EXCEPT !.owner = u, !.level = l, !.state = "available"]

NewSession(u, l) == [NoSession EXCEPT !.owner = u, !.level = l, !.state = "in_progress"]

StartLevel(r, u, l) ==
    /\ pc[r] = "idle"
    /\ IsUnlocked(u, l)
    /\ ActiveSessions(u, l) = {}
    /\ \E s \in SessionIds :
          /\ IsNextSession(s)
          /\ call' = [call EXCEPT ![r] = NewCall("start", u, l, None, None, s)]
    /\ entity' = [entity EXCEPT ![r] = NewSession(u, l)]
    /\ tx' = [tx EXCEPT ![r].opened = TRUE]
    /\ Goto(r, "commit")
    /\ UNCHANGED <<tables, account, dirty>>

\* start records its analytics event in a second transaction.
RecordStart(r) ==
    /\ pc[r] = "record"
    /\ analytics' = analytics \cup
           {[type |-> "level_started", user |-> call[r].user, level |-> call[r].level]}
    /\ Close(r)
    /\ UNCHANGED <<sessions, submissions, progress, users, certifications>>

-----------------------------------------------------------------------------
(* POST /levels/{id}/setup *)

\* The reads of SetupLevelUseCase and the challenge put in the entity; a
\* session already bound to this wallet is returned as it is.
SetupLevel(r, u, l, w) ==
    /\ pc[r] = "idle"
    /\ Linked[u] \in {None, w}
    /\ IsUnlocked(u, l)
    /\ \E s \in SessionIds :
          /\ IsNewest(s, ActiveSessions(u, l))
          /\ \/ /\ sessions[s].bound = w
                /\ Goto(r, "commit")
                /\ UNCHANGED entity
             \/ /\ sessions[s].bound = None
                /\ l \in Executable
                /\ entity' = [entity EXCEPT ![r] =
                       [sessions[s] EXCEPT !.bound = w, !.exploit = "setup_ready"]]
                /\ Goto(r, "session_merge")
          /\ call' = [call EXCEPT ![r] = NewCall("setup", u, l, w, None, s)]
    /\ UNCHANGED <<tables, account, dirty, tx>>

-----------------------------------------------------------------------------
(* POST /levels/{id}/submit *)

\* Mutant: a proof is accepted before setup.
SetUpForProofAlways(l, s) == TRUE

SetUpForProof(l, s) == l \in Executable => sessions[s].bound # None

\* The reads of SubmitLevelUseCase up to the call to the Solana RPC node: the
\* session entity read here is written back at the end of the request.
SubmitLevel(r, u, l, w, g) ==
    /\ pc[r] = "idle"
    /\ Cardinality(submissions) + Cardinality({q \in Requests : call[q].op = "submit"})
          < MaxSubmissions
    /\ IsUnlocked(u, l)
    /\ ~SignatureTaken(g)
    /\ \E s \in SessionIds :
          /\ IsNewest(s, ActiveSessions(u, l))
          /\ SetUpForProof(l, s)
          /\ call' = [call EXCEPT ![r] = NewCall("submit", u, l, w, g, s)]
          /\ entity' = [entity EXCEPT ![r] = sessions[s]]
    /\ Goto(r, "insert")
    /\ UNCHANGED <<tables, account, dirty, tx>>

\* The verdicts the checks of a seeded level can reach.  A proof passes only
\* with a signature found on chain and the wallet the session is bound to
\* (ProofVerification!VerifiedIsEarned, where the checks are).
Verdicts(r) ==
    {v \in BOOLEAN : v => /\ call[r].sig # None
                          /\ entity[r].bound # None
                          /\ call[r].wallet = entity[r].bound}

UsedSubmissionIds ==
    {b.id : b \in submissions \cup UNION {tx[q].submission : q \in Requests}}

AttemptNumber(u, l) == Cardinality({b \in submissions : b.user = u /\ b.level = l}) + 1

\* Mutant: a rejected proof completes the session.
JudgedCompleted(r, v) ==
    [entity[r] EXCEPT !.attempts = @ + 1, !.state = "completed", !.exploit = "verified"]

\* The session entity after the verdict.
Judged(r, v) ==
    [entity[r] EXCEPT
        !.attempts = @ + 1,
        !.sig = IF call[r].sig # None THEN call[r].sig ELSE @,
        !.state = IF v THEN "completed" ELSE "failed",
        !.exploit = IF v THEN "verified" ELSE "failed"]

\* attempt_number, INSERT of the submission, the verdict, and the fields set
\* on the session entity.
InsertSubmission(r) ==
    /\ pc[r] = "insert"
    /\ ~Waits(r)
    /\ ~SignatureTaken(call[r].sig)
    /\ \E v \in Verdicts(r), i \in SubmissionIds \ UsedSubmissionIds :
          /\ \A j \in SubmissionIds \ UsedSubmissionIds : i <= j
          /\ tx' = [tx EXCEPT ![r].submission =
                 {[id |-> i, user |-> call[r].user, level |-> call[r].level,
                   session |-> call[r].session,
                   number |-> AttemptNumber(call[r].user, call[r].level),
                   sig |-> call[r].sig, wallet |-> call[r].wallet, verified |-> v]}]
          /\ entity' = [entity EXCEPT ![r] = Judged(r, v)]
          /\ Goto(r, IF v THEN "complete" ELSE "session_merge")
    /\ UNCHANGED <<tables, call, account, dirty>>

Credited(u, l) ==
    [xp |-> users[u].xp + XpReward[l], completed_levels |-> users[u].completed_levels + 1]

\* Mutant: a replay of a completed level is credited again.
ReadAccountReplay(r) ==
    LET u == call[r].user
        l == call[r].level
    IN  /\ pc[r] = "complete"
        /\ account' = [account EXCEPT ![r] = Credited(u, l)]
        /\ Goto(r, IF <<u, l>> \in progress THEN "account_merge" ELSE "grant")
        /\ UNCHANGED <<tables, call, entity, dirty, tx>>

\* CompleteLevelUseCase: the user is read, then the progress row.
ReadAccount(r) ==
    LET u == call[r].user
        l == call[r].level
    IN  /\ pc[r] = "complete"
        /\ \/ /\ <<u, l>> \in progress
              /\ Goto(r, "certify")
              /\ UNCHANGED account
           \/ /\ <<u, l>> \notin progress
              /\ account' = [account EXCEPT ![r] = Credited(u, l)]
              /\ Goto(r, "grant")
        /\ UNCHANGED <<tables, call, entity, dirty, tx>>

\* INSERT of the progress row.
InsertProgress(r) ==
    /\ pc[r] = "grant"
    /\ ~Waits(r)
    /\ <<call[r].user, call[r].level>> \notin progress
    /\ tx' = [tx EXCEPT ![r].granted = TRUE]
    /\ Goto(r, "account_merge")
    /\ UNCHANGED <<tables, call, entity, account, dirty>>

\* UserRepository.update reads the row again and copies the entity over it.
MergeAccount(r) ==
    LET cols == Changed(users[call[r].user], account[r])
    IN  /\ pc[r] = "account_merge"
        /\ dirty' = [dirty EXCEPT ![r] = cols]
        /\ Goto(r, IF cols = {} THEN "certify" ELSE "account_flush")
        /\ UNCHANGED <<tables, call, entity, account, tx>>

FlushAccount(r) ==
    /\ pc[r] = "account_flush"
    /\ ~Waits(r)
    /\ tx' = [tx EXCEPT ![r].userCols = dirty[r]]
    /\ dirty' = [dirty EXCEPT ![r] = {}]
    /\ Goto(r, "certify")
    /\ UNCHANGED <<tables, call, entity, account>>

\* EvaluateCertificationEligibilityUseCase: the level 2 and level 3 rows are
\* created when due; whenever the level 3 certification exists it is returned
\* and the beginner path is not looked at.
LevelCertifications(done) ==
    (IF 2 \in done THEN {LEVEL_2} ELSE {}) \cup (IF 3 \in done THEN {LEVEL_3} ELSE {})

BeginnerLevels == {l \in Levels : 0 <= l /\ l <= 3}

DueCertifications(done, held) ==
    LET awarded == held \cup LevelCertifications(done)
    IN  awarded \cup (IF /\ LEVEL_3 \notin awarded
                         /\ BeginnerLevels # {} /\ BeginnerLevels \subseteq done
                      THEN {BEGINNER} ELSE {})

\* Mutant: the evaluation does not see the progress row just inserted.
CompletedByCommitted(r, u) == {l \in Levels : <<u, l>> \in progress}

CompletedBy(r, u) == {l \in Levels : <<u, l>> \in VisibleProgress(r)}
HeldBy(u) == {c \in Slugs : <<u, c>> \in certifications}

EvaluateCertification(r) ==
    LET u == call[r].user
    IN  /\ pc[r] = "certify"
        /\ ~Waits(r)
        /\ tx' = [tx EXCEPT ![r].certs =
               DueCertifications(CompletedBy(r, u), HeldBy(u)) \ HeldBy(u)]
        /\ Goto(r, "session_merge")
        /\ UNCHANGED <<tables, call, entity, account, dirty>>

\* A signature or a progress row committed since it was looked up breaks the
\* unique key of the row to insert: the request fails and is rolled back.
IntegrityError(r) ==
    /\ ~Waits(r)
    /\ \/ pc[r] = "insert" /\ SignatureTaken(call[r].sig)
       \/ pc[r] = "grant" /\ <<call[r].user, call[r].level>> \in progress
    /\ Close(r)
    /\ UNCHANGED tables

-----------------------------------------------------------------------------
(* LevelSessionRepository.update and the commit, for setup and submit *)

\* setup_at or last_submitted_at is always new, so there is always an UPDATE.
MergeSession(r) ==
    /\ pc[r] = "session_merge"
    /\ dirty' = [dirty EXCEPT ![r] =
           Changed(sessions[call[r].session], entity[r]) \cup {"stamp"}]
    /\ Goto(r, "session_flush")
    /\ UNCHANGED <<tables, call, entity, account, tx>>

FlushSession(r) ==
    /\ pc[r] = "session_flush"
    /\ ~Waits(r)
    /\ tx' = [tx EXCEPT ![r].sessionCols = dirty[r]]
    /\ dirty' = [dirty EXCEPT ![r] = {}]
    /\ Goto(r, "commit")
    /\ UNCHANGED <<tables, call, entity, account>>

\* Mutant: every submission is recorded as verified.
EventsOfVerified(r) ==
    {[type |-> "level_submission_verified", user |-> call[r].user, level |-> call[r].level] :
        b \in tx[r].submission}

\* The analytics event that setup and submit write in their own transaction.
EventsOf(r) ==
    LET event(type) == [type |-> type, user |-> call[r].user, level |-> call[r].level]
    IN  CASE call[r].op = "setup" -> {event("level_setup_ready")}
          [] call[r].op = "submit" ->
                {event(IF b.verified THEN "level_submission_verified"
                                     ELSE "level_submission_rejected") : b \in tx[r].submission}
          [] OTHER -> {}

\* All the writes of the transaction become visible at once.
Publish(r) ==
    LET u == call[r].user
        s == call[r].session
    IN  /\ sessions' = [sessions EXCEPT ![s] =
               IF tx[r].opened THEN entity[r] ELSE Merged(@, entity[r], tx[r].sessionCols)]
        /\ submissions' = submissions \cup tx[r].submission
        /\ progress' = VisibleProgress(r)
        /\ users' = [users EXCEPT ![u] = Merged(@, account[r], tx[r].userCols)]
        /\ certifications' = certifications \cup {<<u, c>> : c \in tx[r].certs}
        /\ analytics' = analytics \cup EventsOf(r)

CommitStart(r) ==
    /\ pc[r] = "commit" /\ call[r].op = "start"
    /\ Publish(r)
    /\ tx' = [tx EXCEPT ![r] = NoWrites]
    /\ entity' = [entity EXCEPT ![r] = NoSession]
    /\ Goto(r, "record")
    /\ UNCHANGED <<call, account, dirty>>

Commit(r) ==
    /\ pc[r] = "commit" /\ call[r].op # "start"
    /\ Publish(r)
    /\ Close(r)

-----------------------------------------------------------------------------
Arrive(r) ==
    \E u \in Users, l \in Levels :
        \/ ResumeLevel(r, u, l)
        \/ StartLevel(r, u, l)
        \/ \E w \in Wallets :
              \/ SetupLevel(r, u, l, w)
              \/ \E g \in Signatures \cup {None} : SubmitLevel(r, u, l, w, g)

\* The steps a running request takes by itself.
Proceed(r) ==
    \/ RecordStart(r) \/ CommitStart(r) \/ Commit(r)
    \/ InsertSubmission(r) \/ ReadAccount(r) \/ InsertProgress(r)
    \/ MergeAccount(r) \/ FlushAccount(r) \/ EvaluateCertification(r)
    \/ IntegrityError(r) \/ MergeSession(r) \/ FlushSession(r)

Next == \E r \in Requests : Arrive(r) \/ Proceed(r) \/ Abort(r)

Spec == Init /\ [][Next]_vars

-----------------------------------------------------------------------------
(* Properties. *)

TypeOK ==
    /\ sessions \in [SessionIds -> SessionRow]
    /\ submissions \in SUBSET Submission
    /\ progress \in SUBSET (Users \X Levels)
    /\ users \in [Users -> UserRow]
    /\ certifications \in SUBSET (Users \X Slugs)
    /\ analytics \in SUBSET Event
    /\ pc \in [Requests -> PCs]
    /\ call \in [Requests -> Call]
    /\ entity \in [Requests -> SessionRow]
    /\ account \in [Requests -> UserRow]
    /\ dirty \in [Requests -> SUBSET (SessionCols \cup UserCols)]
    /\ tx \in [Requests -> Transaction]

LevelsDoneBy(u) == {l \in Levels : <<u, l>> \in progress}

\* A level counts as completed exactly when a verified submission says so:
\* the submission and the progress row of one request stand or fall together.
VerifiedMeansProgress ==
    \A u \in Users, l \in Levels :
        <<u, l>> \in progress
            <=> \E b \in submissions : b.user = u /\ b.level = l /\ b.verified

\* However requests interleave, one transaction signature is the proof of at
\* most one submission of any user.
SignatureUsedOnce ==
    \A a, b \in submissions : a.sig # None /\ a.sig = b.sig => a = b

\* tx_signature is also unique over level_sessions: a stale session written
\* back over a newer one never makes two sessions claim one signature.
SessionSignaturesDistinct ==
    \A s, t \in SessionIds :
        sessions[s].sig # None /\ sessions[s].sig = sessions[t].sig => s = t

\* users.xp and users.completed_levels, written as values computed from an
\* earlier read, agree with the progress rows: nothing is lost, nothing is
\* credited twice, replays included.
LedgerMatchesProgress ==
    \A u \in Users :
        /\ users[u].xp = TotalReward[LevelsDoneBy(u)]
        /\ users[u].completed_levels = Cardinality(LevelsDoneBy(u))

\* Levels are completed in order: no request slips past the level access
\* check, which it makes before its first write.
ProgressIsSequential ==
    \A u \in Users : \A l \in LevelsDoneBy(u) :
        \A k \in Levels : k < l => k \in LevelsDoneBy(u)

\* A session the code marks completed belongs to a completed level.
CompletedSessionHasProgress ==
    \A s \in SessionIds :
        sessions[s].state = "completed" =>
            <<sessions[s].owner, sessions[s].level>> \in progress

\* The certification of level 2 or 3 is there exactly when its level is done:
\* it is never forgotten, since no later request is bound to create it.
CertificationFollowsLevel ==
    \A u \in Users :
        /\ 2 \in Levels => (<<u, LEVEL_2>> \in certifications <=> <<u, 2>> \in progress)
        /\ 3 \in Levels => (<<u, LEVEL_3>> \in certifications <=> <<u, 3>> \in progress)

\* The submission events of the analytics table tell of committed submissions
\* and of all of them: the route records them before its only commit.
SubmissionEventsMatch ==
    \A u \in Users, l \in Levels, v \in BOOLEAN :
        [type |-> IF v THEN "level_submission_verified" ELSE "level_submission_rejected",
         user |-> u, level |-> l] \in analytics
            <=> \E b \in submissions : b.user = u /\ b.level = l /\ b.verified = v

\* A player who has completed a level keeps it: the status route never shows
\* it again as locked, available or failed, whatever replays do.
CompletedStaysVisible ==
    \A u \in Users : \A l \in LevelsDoneBy(u) : StateFor(u, l) \in {"completed", "in_progress"}

\* A setup never comes undone: a session bound to a wallet stays bound to some
\* wallet, although every request writes the whole session back.
SetupIsNotUndone ==
    [][\A s \in SessionIds : sessions[s].bound # None => sessions'[s].bound # None]_sessions

\* What the documents say and the interleavings break (see the findings).

\* README.md: "Successful verification: marks the session completed".
VerifiedSessionIsCompleted ==
    \A b \in submissions : b.verified => sessions[b.session].state = "completed"

-----------------------------------------------------------------------------
(* Refinement: seen through its commits, the gameplay loop is a ledger that *)
(* pays each level once.                                                    *)

Ledger == INSTANCE AwardLedger WITH
    Awards <- Levels, Reward <- XpReward, awarded <- progress, accounts <- users

ImplementsLedger == Ledger!Spec

-----------------------------------------------------------------------------
(* Liveness: a request that is not cut off ends.  The event loop runs each   *)
(* request; PostgreSQL hands a released lock to the first in its queue, so a *)
(* waiter passed over forever is excluded (strong fairness), and its deadlock *)
(* detector aborts one transaction of every cycle.                           *)

Deadlocked(C) == C # {} /\ \A r \in C : \E q \in C : WaitsFor(r, q)

BreakDeadlock == \E C \in SUBSET Requests : Deadlocked(C) /\ \E r \in C : Abort(r)

FairSpec ==
    /\ Spec
    /\ \A r \in Requests : SF_vars(Proceed(r))
    /\ WF_vars(BreakDeadlock)

\* No request waits forever on the locks and unique keys of others.
EveryRequestEnds == \A r \in Requests : pc[r] # "idle" ~> pc[r] = "idle"
=============================================================================
