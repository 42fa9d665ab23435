---------------------------- MODULE UserLedger ----------------------------
(***************************************************************************)
(* The users row, written by three subsystems that know nothing of each    *)
(* other: a verified level submission (CompleteLevelUseCase), an accepted  *)
(* research lab report (ResearchLabService._award_xp_once) and the linking *)
(* of a wallet (WalletAuthUseCase.link_wallet).  Each changes an entity it *)
(* has read and hands it to UserRepository.update, which reads the row     *)
(* again and writes every column in which the entity differs from it: the  *)
(* column the writer meant to change, and those that others have changed   *)
(* since the entity was read.  The lab and the link read theirs when the   *)
(* request begins, the level only just before its award.                   *)
(*                                                                         *)
(* Transactions, locks and rollbacks are those of LevelPlay.  Abstracted:  *)
(* the submission around a level award, the lab session around a report,   *)
(* the nonce and signature of a link, the columns nobody here changes.     *)
(***************************************************************************)
EXTENDS Integers, FiniteSets, RowWrites

CONSTANTS
    Users, Wallets, Requests,
    Levels,          \* the orders of the vulnerability levels
    Labs,            \* the research labs
    Reward,          \* [Levels \cup Labs -> Nat]
    TotalReward,     \* [SUBSET (Levels \cup Labs) -> Nat]: the sum of Reward
    None

Awards == Levels \cup Labs

ASSUME AwardsAssumption ==
    /\ Levels \in SUBSET Nat /\ Levels \cap Labs = {} /\ IsFiniteSet(Awards)
    /\ Reward \in [Awards -> Nat]
    /\ TotalReward \in [SUBSET Awards -> Nat]
    /\ TotalReward[{}] = 0
    /\ \A paid \in SUBSET Awards, a \in Awards :
          a \notin paid => TotalReward[paid \cup {a}] = TotalReward[paid] + Reward[a]
ASSUME WalletsAssumption == None \notin Wallets \cup Users \cup Awards

VARIABLES
    awarded, users,                   \* committed: pairs <<user, award>>, users rows
    pc, call, account, dirty, tx      \* per request

tables == <<awarded, users>>
locals == <<pc, call, account, dirty, tx>>
vars == <<tables, locals>>

UserRow == [xp : Nat, completed_levels : Nat, wallet : Wallets \cup {None}]
UserCols == {"xp", "completed_levels", "wallet"}

\* award is the level or the lab of an award, wallet the one to link.
Call ==
    [op : {"none", "level", "report", "link"}, user : Users \cup {None},
     award : Awards \cup {None}, wallet : Wallets \cup {None}]

\* The writes of an open transaction: its award row, and the columns of the
\* account it has updated.
Transaction == [granted : BOOLEAN, userCols : SUBSET UserCols]

NoAccount == [xp |-> 0, completed_levels |-> 0, wallet |-> None]
NoCall == [op |-> "none", user |-> None, award |-> None, wallet |-> None]
NoWrites == [granted |-> FALSE, userCols |-> {}]

PCs == {"idle", "complete", "award", "link", "grant", "merge", "flush", "commit"}

-----------------------------------------------------------------------------
PaidTo(u) == {a \in Awards : <<u, a>> \in awarded}

\* LevelAccessService.is_unlocked
IsUnlocked(u, l) ==
    \/ \A k \in Levels : l <= k
    \/ l - 1 \notin Levels
    \/ <<u, l - 1>> \in awarded

\* Mutant: a link records its event, which refers to the user, before the update.
HoldsKeyEarly(q) == call[q].op \in {"level", "link"} \/ tx[q].granted

\* A row that refers to a user keeps the keys of that user's row as they are
\* until its transaction ends: the submission before a level award, the award.
HoldsKey(q) == call[q].op = "level" \/ tx[q].granted

SetsWallet(q) == "wallet" \in tx[q].userCols

\* uq_progress_user_level, uq_research_lab_completion, the reference to the user.
GrantWaits(r, q) ==
    /\ pc[r] = "grant" /\ call[q].user = call[r].user
    /\ SetsWallet(q) \/ (tx[q].granted /\ call[q].award = call[r].award)

\* Mutant: users.wallet_address without its unique index.
FlushWaitsNoUnique(r, q) ==
    pc[r] = "flush" /\ tx[q].userCols # {} /\ call[q].user = call[r].user

\* The row lock of another UPDATE; a reference to the row, if its wallet is to
\* change, which is a key; and the unique index on wallet_address, which also
\* waits to learn whether another user's row gives the wallet up.
FlushWaits(r, q) ==
    /\ pc[r] = "flush"
    /\ \/ call[q].user = call[r].user /\ tx[q].userCols # {}
       \/ call[q].user = call[r].user /\ "wallet" \in dirty[r] /\ HoldsKey(q)
       \/ /\ "wallet" \in dirty[r] /\ SetsWallet(q)
          /\ account[r].wallet # None
          /\ account[r].wallet \in {account[q].wallet, users[call[q].user].wallet}

WaitsFor(r, q) == q # r /\ (GrantWaits(r, q) \/ FlushWaits(r, q))

Waits(r) == \E q \in Requests : WaitsFor(r, q)

\* users.wallet_address is unique: an UPDATE cannot set the wallet of another.
WalletTaken(r) ==
    /\ "wallet" \in dirty[r] /\ account[r].wallet # None
    /\ \E v \in Users \ {call[r].user} : users[v].wallet = account[r].wallet

-----------------------------------------------------------------------------
Init ==
    /\ awarded = {}
    /\ users = [u \in Users |-> NoAccount]
    /\ pc = [r \in Requests |-> "idle"]
    /\ call = [r \in Requests |-> NoCall]
    /\ account = [r \in Requests |-> NoAccount]
    /\ dirty = [r \in Requests |-> {}]
    /\ tx = [r \in Requests |-> NoWrites]

Close(r) ==
    /\ pc' = [pc EXCEPT ![r] = "idle"]
    /\ call' = [call EXCEPT ![r] = NoCall]
    /\ account' = [account EXCEPT ![r] = NoAccount]
    /\ dirty' = [dirty EXCEPT ![r] = {}]
    /\ tx' = [tx EXCEPT ![r] = NoWrites]

\* An exception, a client that leaves, a deadlock victim, a crash: rollback.
Abort(r) ==
    /\ pc[r] # "idle"
    /\ Close(r)
    /\ UNCHANGED tables

Goto(r, label) == pc' = [pc EXCEPT ![r] = label]

NewCall(op, u, a, w) == [op |-> op, user |-> u, award |-> a, wallet |-> w]

\* A submission has been inserted and its proof verified.
BeginLevel(r, u, l) ==
    /\ pc[r] = "idle"
    /\ IsUnlocked(u, l)
    /\ \A q \in Requests : SetsWallet(q) => call[q].user # u
    /\ call' = [call EXCEPT ![r] = NewCall("level", u, l, None)]
    /\ Goto(r, "complete")
    /\ UNCHANGED <<tables, account, dirty, tx>>

\* get_current_user loads the entity that the lab service updates at the end.
BeginReport(r, u, b) ==
    /\ pc[r] = "idle"
    /\ call' = [call EXCEPT ![r] = NewCall("report", u, b, None)]
    /\ account' = [account EXCEPT ![r] = users[u]]
    /\ Goto(r, "award")
    /\ UNCHANGED <<tables, dirty, tx>>

\* get_current_user loads the entity that link_wallet updates.
BeginLink(r, u, w) ==
    /\ pc[r] = "idle"
    /\ call' = [call EXCEPT ![r] = NewCall("link", u, None, w)]
    /\ account' = [account EXCEPT ![r] = users[u]]
    /\ Goto(r, "link")
    /\ UNCHANGED <<tables, dirty, tx>>

\* CompleteLevelUseCase: the user is read, then the progress row; a level that
\* is done is not paid again.
CompleteLevel(r) ==
    LET u == call[r].user
        l == call[r].award
    IN  /\ pc[r] = "complete"
        /\ \/ /\ <<u, l>> \in awarded
              /\ Goto(r, "commit")
              /\ UNCHANGED account
           \/ /\ <<u, l>> \notin awarded
              /\ account' = [account EXCEPT ![r] =
                     [users[u] EXCEPT !.xp = @ + Reward[l], !.completed_levels = @ + 1]]
              /\ Goto(r, "grant")
        /\ UNCHANGED <<tables, call, dirty, tx>>

\* Mutant: the lab is credited again although its completion is on record.
AwardLabTwice(r) ==
    LET u == call[r].user
        b == call[r].award
    IN  /\ pc[r] = "award"
        /\ account' = [account EXCEPT ![r].xp = @ + Reward[b]]
        /\ Goto(r, IF <<u, b>> \in awarded THEN "merge" ELSE "grant")
        /\ UNCHANGED <<tables, call, dirty, tx>>

\* _award_xp_once: the completion is looked up; the entity is the one loaded
\* when the request began.
AwardLab(r) ==
    LET u == call[r].user
        b == call[r].award
    IN  /\ pc[r] = "award"
        /\ \/ /\ <<u, b>> \in awarded
              /\ Goto(r, "commit")
              /\ UNCHANGED account
           \/ /\ <<u, b>> \notin awarded
              /\ account' = [account EXCEPT ![r].xp = @ + Reward[b]]
              /\ Goto(r, "grant")
        /\ UNCHANGED <<tables, call, dirty, tx>>

\* The wallet must not be another user's.
LinkWallet(r) ==
    LET u == call[r].user
        w == call[r].wallet
    IN  /\ pc[r] = "link"
        /\ \A v \in Users \ {u} : users[v].wallet # w
        /\ account' = [account EXCEPT ![r].wallet = w]
        /\ Goto(r, "merge")
        /\ UNCHANGED <<tables, call, dirty, tx>>

\* INSERT of the progress row or of the lab completion.
InsertAward(r) ==
    /\ pc[r] = "grant"
    /\ ~Waits(r)
    /\ <<call[r].user, call[r].award>> \notin awarded
    /\ tx' = [tx EXCEPT ![r].granted = TRUE]
    /\ Goto(r, "merge")
    /\ UNCHANGED <<tables, call, account, dirty>>

\* UserRepository.update reads the row again and copies the entity over it.
MergeAccount(r) ==
    LET cols == Changed(users[call[r].user], account[r])
    IN  /\ pc[r] = "merge"
        /\ dirty' = [dirty EXCEPT ![r] = cols]
        /\ Goto(r, IF cols = {} THEN "commit" ELSE "flush")
        /\ UNCHANGED <<tables, call, account, tx>>

FlushAccount(r) ==
    /\ pc[r] = "flush"
    /\ ~Waits(r)
    /\ ~WalletTaken(r)
    /\ tx' = [tx EXCEPT ![r].userCols = dirty[r]]
    /\ dirty' = [dirty EXCEPT ![r] = {}]
    /\ Goto(r, "commit")
    /\ UNCHANGED <<tables, call, account>>

\* An award or a wallet committed since it was looked up breaks a unique key.
IntegrityError(r) ==
    /\ ~Waits(r)
    /\ \/ pc[r] = "grant" /\ <<call[r].user, call[r].award>> \in awarded
       \/ pc[r] = "flush" /\ WalletTaken(r)
    /\ Close(r)
    /\ UNCHANGED tables

\* Mutant: every commit records an award, whatever the request inserted.
CommitGrants(r) ==
    LET u == call[r].user
    IN  /\ pc[r] = "commit"
        /\ awarded' = awarded \cup {<<u, call[r].award>>}
        /\ users' = [users EXCEPT ![u] = Merged(@, account[r], tx[r].userCols)]
        /\ Close(r)

Commit(r) ==
    LET u == call[r].user
    IN  /\ pc[r] = "commit"
        /\ awarded' = awarded \cup (IF tx[r].granted THEN {<<u, call[r].award>>} ELSE {})
        /\ users' = [users EXCEPT ![u] = Merged(@, account[r], tx[r].userCols)]
        /\ Close(r)

Arrive(r) ==
    \E u \in Users :
        \/ \E l \in Levels : BeginLevel(r, u, l)
        \/ \E b \in Labs : BeginReport(r, u, b)
        \/ \E w \in Wallets : BeginLink(r, u, w)

Proceed(r) ==
    \/ CompleteLevel(r) \/ AwardLab(r) \/ LinkWallet(r) \/ InsertAward(r)
    \/ MergeAccount(r) \/ FlushAccount(r) \/ IntegrityError(r) \/ Commit(r)

Next == \E r \in Requests : Arrive(r) \/ Proceed(r) \/ Abort(r)

Spec == Init /\ [][Next]_vars

-----------------------------------------------------------------------------
(* Properties. *)

TypeOK ==
    /\ awarded \in SUBSET (Users \X Awards)
    /\ users \in [Users -> UserRow]
    /\ pc \in [Requests -> PCs]
    /\ call \in [Requests -> Call]
    /\ account \in [Requests -> UserRow]
    /\ dirty \in [Requests -> SUBSET UserCols]
    /\ tx \in [Requests -> Transaction]

\* Whatever stale values the three writers put back, an account never holds
\* more than the awards on record: an award is paid at most once.
NeverOverpaid ==
    \A u \in Users :
        /\ users[u].xp <= TotalReward[PaidTo(u)]
        /\ users[u].completed_levels <= Cardinality(PaidTo(u) \cap Levels)

\* A wallet belongs to at most one user, also when two link it at once or a
\* stale account carries it back.
WalletHasOneUser ==
    \A u, v \in Users :
        users[u].wallet # None /\ users[u].wallet = users[v].wallet => u = v

\* Requests never wait for each other in a circle, with the one lab there is: in
\* any set of requests, one waits for none of the others.  A stale account that
\* carries a wallet back changes a key of its row, and waits for all who refer to
\* the row; only the request of the lab carries one and is referring itself.
NoCircularWait ==
    (\A a, b \in Labs : a = b) =>
        \A circle \in (SUBSET Requests) \ {{}} : \E r \in circle : \A q \in circle : ~WaitsFor(r, q)

\* README.md: a successful verification "awards XP once for that level", and
\* progression_system.md: "Track: ... total XP".
AwardsArePaid == \A u \in Users : users[u].xp = TotalReward[PaidTo(u)]
=============================================================================
