---------------------------- MODULE WalletAuth ----------------------------
(***************************************************************************)
(* Everything that writes the keys of the users table: registration,       *)
(* wallet sign-in, wallet linking, and the award of a research lab, which  *)
(* writes the whole account back as it was when its request began.  With   *)
(* it the wallet_auth_nonces table and the analytics events that say who   *)
(* used which wallet.  A request reads the nonce and, much later, consumes *)
(* it; reads who holds the wallet and, later, creates or changes an        *)
(* account; two requests do so at once, with one nonce or with two.        *)
(*                                                                         *)
(* Transactions, locks and rollbacks are those of LevelPlay; the columns   *)
(* of an account that are no keys are in UserLedger, with the level award, *)
(* which reads the account while it holds its key and so never changes it. *)
(* Abstracted: an account is known by its username, which is unique and    *)
(* never changes (the e-mail address is as distinct); a signature is by    *)
(* the wallet that the request names, or the request ends without a trace; *)
(* so does a password login or a token refresh, which only read; and there *)
(* is one lab, as in the catalogue.                                        *)
(***************************************************************************)
EXTENDS Naturals

CONSTANTS
    Wallets, Nonces, Requests,
    Names,           \* usernames
    WalletName,      \* [Wallets -> Names]: wallet_<the first 12 characters>
    None,            \* an account without a wallet, a nonce not issued yet
    Absent           \* no account of this name

ASSUME NamesAssumption == WalletName \in [Wallets -> Names]
ASSUME MarkersAssumption == {None, Absent} \cap Wallets = {} /\ None # Absent

VARIABLES
    nonces,          \* [Nonces -> [wallet, spent, expired]]
    users,           \* [Names -> the wallet of the account, None or Absent]
    events,          \* the wallet_login and wallet_linked events
    completions,     \* the accounts that have been paid for the lab
    pc, call, tx     \* per request

tables == <<nonces, users, events, completions>>
vars == <<tables, pc, call, tx>>

NonceRow == [wallet : Wallets \cup {None}, spent : BOOLEAN, expired : BOOLEAN]
Event == [type : {"login", "link"}, name : Names, wallet : Wallets]
\* The wallet of an award is the one its account had when the request began.
Call ==
    [op : {"none", "register", "login", "link", "award"}, name : Names \cup {None},
     wallet : Wallets \cup {None}, nonce : Nonces \cup {None}]

\* What an open transaction has written: its nonce is consumed, the key of its
\* account is inserted or changed, its event, its completion is recorded.
Transaction == [spent : BOOLEAN, wrote : BOOLEAN, logged : BOOLEAN, granted : BOOLEAN]

PCs == {"idle", "check", "consume", "find", "insert", "grant", "merge", "flush",
        "record", "commit"}

NoCall == [op |-> "none", name |-> None, wallet |-> None, nonce |-> None]
NoWrites == [spent |-> FALSE, wrote |-> FALSE, logged |-> FALSE, granted |-> FALSE]

-----------------------------------------------------------------------------
\* Mutant: the look-up by nonce alone; the message of any wallet will do.
ActiveAnyWallet(n, w) ==
    nonces[n].wallet # None /\ ~nonces[n].spent /\ ~nonces[n].expired

\* SQLAlchemyWalletNonceRepository.get_active
Active(n, w) ==
    nonces[n].wallet = w /\ ~nonces[n].spent /\ ~nonces[n].expired

\* get_by_wallet_address
Holds(m, w) == users[m] = w

\* An open transaction has changed the key of this account, a row on record.
Changes(q, m) == tx[q].wrote /\ call[q].op \in {"link", "award"} /\ call[q].name = m

\* A row that an open transaction has inserted refers to this account.
Refers(q, m) == (tx[q].logged \/ tx[q].granted) /\ call[q].name = m

\* Mutant: a unique key of users on username alone.
KeyWaitsNameOnly(r, q) == tx[q].wrote /\ call[q].name = call[r].name

\* Mutant: the UPDATE of an account does not lock its row.
KeyWaitsWalletOnly(r, q) ==
    /\ tx[q].wrote
    /\ call[r].wallet # None /\ call[r].wallet \in {call[q].wallet, users[call[q].name]}

\* The unique keys of users, username and wallet_address: the keys that an open
\* transaction sets, and the wallet that it gives up if it commits.
KeyWaits(r, q) ==
    /\ tx[q].wrote
    /\ \/ call[q].name = call[r].name
       \/ call[r].wallet # None /\ call[r].wallet \in {call[q].wallet, users[call[q].name]}

\* A row lock, a unique key, or the reference of an event or a completion to an
\* account whose wallet, a key, is being changed; and a change of that key to
\* the reference.
WaitsFor(r, q) ==
    /\ q # r
    /\ \/ pc[r] = "consume" /\ tx[q].spent /\ call[q].nonce = call[r].nonce
       \/ pc[r] \in {"insert", "flush"} /\ KeyWaits(r, q)
       \/ pc[r] = "grant" /\ tx[q].granted /\ call[q].name = call[r].name
       \/ pc[r] = "flush" /\ Refers(q, call[r].name)
       \/ pc[r] \in {"grant", "record"} /\ Changes(q, call[r].name)

Waits(r) == \E q \in Requests : WaitsFor(r, q)

WalletTaken(r) ==
    call[r].wallet # None /\ \E m \in Names \ {call[r].name} : Holds(m, call[r].wallet)

\* Mutant: an account of the name is taken for the wallet's own.
TakenByWallet(r) == WalletTaken(r)

\* The committed rows refuse the INSERT (its name included) or the UPDATE.
Taken(r) ==
    \/ WalletTaken(r)
    \/ pc[r] = "insert" /\ users[call[r].name] # Absent

-----------------------------------------------------------------------------
Init ==
    /\ nonces = [n \in Nonces |-> [wallet |-> None, spent |-> FALSE, expired |-> FALSE]]
    /\ users = [m \in Names |-> Absent]
    /\ events = {}
    /\ completions = {}
    /\ pc = [r \in Requests |-> "idle"]
    /\ call = [r \in Requests |-> NoCall]
    /\ tx = [r \in Requests |-> NoWrites]

Goto(r, label) == pc' = [pc EXCEPT ![r] = label]

\* The session of the request is closed: its answer is sent, or an exception is.
Close(r) ==
    /\ Goto(r, "idle")
    /\ call' = [call EXCEPT ![r] = NoCall]
    /\ tx' = [tx EXCEPT ![r] = NoWrites]

\* A client that leaves, a lost connection, a crash: rollback.
Abort(r) ==
    /\ pc[r] # "idle"
    /\ Close(r)
    /\ UNCHANGED tables

\* POST /auth/wallet/nonce: a random nonce, in a transaction that meets no other.
CreateNonce(n, w) ==
    /\ nonces[n].wallet = None
    /\ nonces' = [nonces EXCEPT ![n].wallet = w]
    /\ UNCHANGED <<users, events, completions, pc, call, tx>>

\* Five minutes have passed since the nonce was issued.
Expire(n) ==
    /\ nonces[n].wallet # None /\ ~nonces[n].expired
    /\ nonces' = [nonces EXCEPT ![n].expired = TRUE]
    /\ UNCHANGED <<users, events, completions, pc, call, tx>>

\* Mutant: the wallet and the nonce of a call in each other's place.
NewCallSwapped(op, m, w, n) == [op |-> op, name |-> m, wallet |-> n, nonce |-> w]

NewCall(op, m, w, n) == [op |-> op, name |-> m, wallet |-> w, nonce |-> n]

\* RegisterUserUseCase, up to the hashing of the password.
BeginRegister(r, m) ==
    /\ pc[r] = "idle"
    /\ users[m] = Absent
    /\ call' = [call EXCEPT ![r] = NewCall("register", m, None, None)]
    /\ Goto(r, "insert")
    /\ UNCHANGED <<tables, tx>>

\* verify_wallet_login: nonce and signature.
BeginLogin(r, w, n) ==
    /\ pc[r] = "idle"
    /\ Active(n, w)
    /\ call' = [call EXCEPT ![r] = NewCall("login", None, w, n)]
    /\ Goto(r, "consume")
    /\ UNCHANGED <<tables, tx>>

\* link_wallet of a signed-in user: nonce and signature.
BeginLink(r, m, w, n) ==
    /\ pc[r] = "idle"
    /\ users[m] # Absent
    /\ Active(n, w)
    /\ call' = [call EXCEPT ![r] = NewCall("link", m, w, n)]
    /\ Goto(r, "check")
    /\ UNCHANGED <<tables, tx>>

\* An accepted report: get_current_user has loaded the account that the award
\* will write.
BeginAward(r, m) ==
    /\ pc[r] = "idle"
    /\ users[m] # Absent
    /\ call' = [call EXCEPT ![r] = NewCall("award", m, users[m], None)]
    /\ Goto(r, "grant")
    /\ UNCHANGED <<tables, tx>>

\* link_wallet: WalletAlreadyLinkedError, or on.
CheckHolder(r) ==
    /\ pc[r] = "check"
    /\ \/ WalletTaken(r) /\ Close(r)
       \/ ~WalletTaken(r) /\ Goto(r, "consume") /\ UNCHANGED <<call, tx>>
    /\ UNCHANGED tables

\* consumed_at is set without being looked at again.
Consume(r) ==
    /\ pc[r] = "consume"
    /\ ~Waits(r)
    /\ tx' = [tx EXCEPT ![r].spent = TRUE]
    /\ Goto(r, IF call[r].op = "login" THEN "find" ELSE "merge")
    /\ UNCHANGED <<tables, call>>

\* verify_wallet_login: the account that holds the wallet, or a new one.
FindHolder(r) ==
    LET w == call[r].wallet
    IN  /\ pc[r] = "find"
        /\ \/ \E m \in Names :
                /\ Holds(m, w)
                /\ call' = [call EXCEPT ![r].name = m]
                /\ Goto(r, "record")
           \/ /\ \A m \in Names : ~Holds(m, w)
              /\ call' = [call EXCEPT ![r].name = WalletName[w]]
              /\ Goto(r, "insert")
        /\ UNCHANGED <<tables, tx>>

\* UserRepository.create
Insert(r) ==
    /\ pc[r] = "insert"
    /\ ~Waits(r)
    /\ ~Taken(r)
    /\ tx' = [tx EXCEPT ![r].wrote = TRUE]
    /\ Goto(r, IF call[r].op = "login" THEN "record" ELSE "commit")
    /\ UNCHANGED <<tables, call>>

\* _award_xp_once: a lab that has been paid is not paid again, by the look-up or
\* by the unique key.
Grant(r) ==
    /\ pc[r] = "grant"
    /\ \/ call[r].name \in completions /\ Close(r)
       \/ /\ call[r].name \notin completions
          /\ ~Waits(r)
          /\ tx' = [tx EXCEPT ![r].granted = TRUE]
          /\ Goto(r, "merge")
          /\ UNCHANGED call
    /\ UNCHANGED tables

\* Only a link records an event after it has written the account.
AfterUpdate(r) == IF call[r].op = "link" THEN "record" ELSE "commit"

\* UserRepository.update reads the row; it writes the key only if it differs.
Merge(r) ==
    /\ pc[r] = "merge"
    /\ Goto(r, IF Holds(call[r].name, call[r].wallet) THEN AfterUpdate(r) ELSE "flush")
    /\ UNCHANGED <<tables, call, tx>>

Flush(r) ==
    /\ pc[r] = "flush"
    /\ ~Waits(r)
    /\ ~Taken(r)
    /\ tx' = [tx EXCEPT ![r].wrote = TRUE]
    /\ Goto(r, AfterUpdate(r))
    /\ UNCHANGED <<tables, call>>

\* Mutant: the write that breaks a key is tried again.
IntegrityErrorRetried(r) ==
    /\ pc[r] \in {"insert", "flush"}
    /\ ~Waits(r)
    /\ Taken(r)
    /\ Goto(r, IF pc[r] = "flush" THEN "merge" ELSE "insert")
    /\ UNCHANGED <<tables, call, tx>>

\* A key committed since it was looked up: the request ends in an error.
IntegrityError(r) ==
    /\ pc[r] \in {"insert", "flush"}
    /\ ~Waits(r)
    /\ Taken(r)
    /\ Close(r)
    /\ UNCHANGED tables

\* Mutant: only sign-ins are recorded.
RecordLogins(r) ==
    /\ pc[r] = "record"
    /\ ~Waits(r)
    /\ tx' = [tx EXCEPT ![r].logged = call[r].op = "login"]
    /\ Goto(r, "commit")
    /\ UNCHANGED <<tables, call>>

\* The wallet_login or wallet_linked event, which refers to the account.
Record(r) ==
    /\ pc[r] = "record"
    /\ ~Waits(r)
    /\ tx' = [tx EXCEPT ![r].logged = TRUE]
    /\ Goto(r, "commit")
    /\ UNCHANGED <<tables, call>>

Commit(r) ==
    LET c == call[r]
    IN  /\ pc[r] = "commit"
        /\ nonces' = [n \in Nonces |->
               [nonces[n] EXCEPT !.spent = @ \/ (tx[r].spent /\ n = c.nonce)]]
        /\ users' = [m \in Names |->
               IF tx[r].wrote /\ m = c.name THEN c.wallet ELSE users[m]]
        /\ events' = events \cup
               {e \in Event : tx[r].logged /\ e = [type |-> c.op, name |-> c.name,
                                                    wallet |-> c.wallet]}
        /\ completions' = completions \cup {m \in Names : tx[r].granted /\ m = c.name}
        /\ Close(r)

Arrive(r) ==
    \/ \E m \in Names : BeginRegister(r, m) \/ BeginAward(r, m)
    \/ \E n \in Nonces, w \in Wallets :
          \/ BeginLogin(r, w, n)
          \/ \E m \in Names : BeginLink(r, m, w, n)

Proceed(r) ==
    \/ CheckHolder(r) \/ Consume(r) \/ FindHolder(r) \/ Insert(r) \/ Grant(r)
    \/ Merge(r) \/ Flush(r) \/ IntegrityError(r) \/ Record(r) \/ Commit(r)

Next ==
    \/ \E n \in Nonces : Expire(n) \/ \E w \in Wallets : CreateNonce(n, w)
    \/ \E r \in Requests : Arrive(r) \/ Proceed(r) \/ Abort(r)

Spec == Init /\ [][Next]_vars

\* The event loop runs every request on, and PostgreSQL queues those who wait
\* for a lock.
FairSpec == Spec /\ \A r \in Requests : SF_vars(Proceed(r))

-----------------------------------------------------------------------------
(* Properties. *)

TypeOK ==
    /\ nonces \in [Nonces -> NonceRow]
    /\ users \in [Names -> Wallets \cup {None, Absent}]
    /\ events \in SUBSET Event
    /\ completions \in SUBSET Names
    /\ pc \in [Requests -> PCs]
    /\ call \in [Requests -> Call]
    /\ tx \in [Requests -> Transaction]

\* Nobody signs in with a wallet, or has one, that has not been proven: for each
\* there is a nonce that was issued to it and is consumed.
WalletIsProven ==
    \A w \in {e.wallet : e \in events} \cup ({users[m] : m \in Names} \cap Wallets) :
        \E n \in Nonces : nonces[n].wallet = w /\ nonces[n].spent

\* A wallet has one account, also when two first sign-ins, or a sign-in and a
\* link, create and claim it at once.
WalletHasOneAccount ==
    \A m, k \in Names : users[m] \in Wallets /\ users[m] = users[k] => m = k

\* The analytics know how each account came by its wallet: the event is
\* committed with the account or not at all.
WalletsAreLogged ==
    \A m \in Names : users[m] \in Wallets =>
        \E e \in events : e.name = m /\ e.wallet = users[m]

\* A link that the user of this account has asked for gives it the wallet that
\* has signed the nonce which the same commit consumes.
LinksWallet(m) ==
    \E r \in Requests :
        /\ call[r].op = "link" /\ call[r].name = m
        /\ nonces[call[r].nonce].wallet = users'[m]
        /\ nonces'[call[r].nonce].spent

\* A lab award of this account's own user gives back what the account was when
\* its request began: without a wallet, or with one that it has had by its own
\* signature.
RevertsWallet(m) ==
    /\ \E r \in Requests : call[r].op = "award" /\ call[r].name = m
    /\ users'[m] # None => \E e \in events : e.name = m /\ e.wallet = users'[m]

\* No wallet moves into an account on record but by its user's signature, given
\* now for a link or earlier for what an award writes back; no sign-in, and no
\* request of another user, takes an account over or its wallet away.
WalletIsNotTakenOver ==
    [][\A m \in Names : users[m] # Absent /\ users'[m] # users[m] =>
          LinksWallet(m) \/ RevertsWallet(m)]_users

\* tests/integration/test_wallet_auth_analytics.py: test_linked_wallet_enforced_
\* during_level_setup.  The wallet of an account, the one that its levels are
\* set up with, is the one its user linked: it changes only by a signed link.
WalletMovesBySignedLink ==
    [][\A m \in Names : users[m] # Absent /\ users'[m] # users[m] => LinksWallet(m)]_users

\* Requests never wait for each other in a circle: in any set of requests, one
\* waits for none of the others.  They lock the nonce before the account; an
\* event refers to the account after it is written, a completion before.
NoCircularWait ==
    \A circle \in (SUBSET Requests) \ {{}} : \E r \in circle : \A q \in circle : ~WaitsFor(r, q)

\* No request waits forever for the nonce, the keys or the rows of others.
EveryRequestEnds == \A r \in Requests : pc[r] # "idle" ~> pc[r] = "idle"

\* tests/integration/test_wallet_auth_analytics.py: test_wallet_login_creates_
\* wallet_owned_user.  A sign-in with a wallet that has signed in before and that
\* no account holds now creates its account.
LoginCreatesAccount ==
    \A r \in Requests :
        /\ pc[r] = "insert" /\ call[r].op = "login"
        /\ \E e \in events : e.type = "login" /\ e.wallet = call[r].wallet
        /\ \A m \in Names : ~Holds(m, call[r].wallet)
        => users[call[r].name] = Absent
=============================================================================
